---- MODULE Spec2Model ----
(***************************************************************************)
(* Model of the cereal-box-styles prompt pipeline:                         *)
(*   tools/parser.py       lexical extractor (parse_prompt_components)     *)
(*   tools/utils.py        weighter, ordering, negative prompt             *)
(*   tools/transformer.py  category transformer                            *)
(*   server.py             OlogLoader, module globals, the MCP tools       *)
(*                                                                         *)
(* Python values are encoded as follows.                                   *)
(*   str            a TLA+ string                                          *)
(*   None           the string None (below), which no text can contain     *)
(*   list           a sequence                                             *)
(*   dict           a record, or [order, value] when iteration order is    *)
(*                  observable                                             *)
(* Prompt texts are strings over letters, digits and single spaces, so the *)
(* regex classes \w and \s are "not a space" and "a space".                *)
(***************************************************************************)
EXTENDS Integers, Sequences, FiniteSets, TLC

(***************************************************************************)
(* Python string primitives                                                *)
(***************************************************************************)

\* Python's None in a slot that otherwise holds a string.
None == "<None>"

\* bool(v) for v a string or None.
Truthy(v) == v # None /\ v # ""

\* str(v) / f"{v}" for v a string or None.
Str(v) == IF v = None THEN "None" ELSE v

RECURSIVE MinFrom(_, _)
MinFrom(S, i) == IF i \in S THEN i ELSE MinFrom(S, i + 1)

\* min(S) for a non-empty set S of natural numbers.
Min(S) == MinFrom(S, 0)

UpperOf ==
  [c \in {"a","b","c","d","e","f","g","h","i","j","k","l","m","n","o","p",
          "q","r","s","t","u","v","w","x","y","z"} |->
     CASE c = "a" -> "A" [] c = "b" -> "B" [] c = "c" -> "C" [] c = "d" -> "D"
       [] c = "e" -> "E" [] c = "f" -> "F" [] c = "g" -> "G" [] c = "h" -> "H"
       [] c = "i" -> "I" [] c = "j" -> "J" [] c = "k" -> "K" [] c = "l" -> "L"
       [] c = "m" -> "M" [] c = "n" -> "N" [] c = "o" -> "O" [] c = "p" -> "P"
       [] c = "q" -> "Q" [] c = "r" -> "R" [] c = "s" -> "S" [] c = "t" -> "T"
       [] c = "u" -> "U" [] c = "v" -> "V" [] c = "w" -> "W" [] c = "x" -> "X"
       [] c = "y" -> "Y" [] c = "z" -> "Z"]

LowerOf ==
  [c \in {"A","B","C","D","E","F","G","H","I","J","K","L","M","N","O","P",
          "Q","R","S","T","U","V","W","X","Y","Z"} |->
     CASE c = "A" -> "a" [] c = "B" -> "b" [] c = "C" -> "c" [] c = "D" -> "d"
       [] c = "E" -> "e" [] c = "F" -> "f" [] c = "G" -> "g" [] c = "H" -> "h"
       [] c = "I" -> "i" [] c = "J" -> "j" [] c = "K" -> "k" [] c = "L" -> "l"
       [] c = "M" -> "m" [] c = "N" -> "n" [] c = "O" -> "o" [] c = "P" -> "p"
       [] c = "Q" -> "q" [] c = "R" -> "r" [] c = "S" -> "s" [] c = "T" -> "t"
       [] c = "U" -> "u" [] c = "V" -> "v" [] c = "W" -> "w" [] c = "X" -> "x"
       [] c = "Y" -> "y" [] c = "Z" -> "z"]

RECURSIVE Upper(_)
\* str.upper()
Upper(s) ==
  IF s = "" THEN ""
  ELSE LET c == SubSeq(s, 1, 1)
       IN (IF c \in DOMAIN UpperOf THEN UpperOf[c] ELSE c) \o Upper(Tail(s))

RECURSIVE Lower(_)
\* str.lower()
Lower(s) ==
  IF s = "" THEN ""
  ELSE IF Len(s) = 1 THEN (IF s \in DOMAIN LowerOf THEN LowerOf[s] ELSE s)
  ELSE Lower(SubSeq(s, 1, Len(s) \div 2))
         \o Lower(SubSeq(s, (Len(s) \div 2) + 1, Len(s)))

\* Python "sub in text".
Contains(text, sub) ==
  \E i \in 1..(Len(text) - Len(sub) + 1) : SubSeq(text, i, i + Len(sub) - 1) = sub

\* s[:n]
Prefix(s, n) == SubSeq(s, 1, IF n < Len(s) THEN n ELSE Len(s))

RECURSIVE Join(_, _)
\* sep.join(parts)
Join(sep, parts) ==
  IF parts = <<>> THEN ""
  ELSE IF Len(parts) = 1 THEN parts[1]
  ELSE parts[1] \o sep \o Join(sep, Tail(parts))

(***************************************************************************)
(* Regular-expression primitives used by the parser                        *)
(***************************************************************************)

\* \w at position i (positions outside the text are not word characters).
IsWordAt(t, i) == i >= 1 /\ i <= Len(t) /\ SubSeq(t, i, i) # " "

\* \b between position i-1 and position i.
BoundaryAt(t, i) == IsWordAt(t, i - 1) # IsWordAt(t, i)

\* The literal w (lower case) matches at position i, ignoring case; lt is the
\* lower-cased text.
LitAt(lt, i, w) ==
  /\ i >= 1
  /\ i + Len(w) - 1 <= Len(lt)
  /\ SubSeq(lt, i, i + Len(w) - 1) = w

\* First position >= i that is not a space (\s* consumed greedily).
SkipSpaces(t, i) ==
  Min({j \in i..(Len(t) + 1) : j = Len(t) + 1 \/ SubSeq(t, j, j) # " "})

\* Position just after the run of word characters starting at i (\w+).
WordEnd(t, i) ==
  Min({j \in i..(Len(t) + 1) : ~IsWordAt(t, j)})

NoMatch == [start |-> 0, stop |-> 0, group |-> None]

\* re.search(r'\b(a1|a2|...)\b', t, re.IGNORECASE): leftmost position, and at
\* that position the first alternative that matches.
SearchWord(t, alts) ==
  LET lt == Lower(t)
      ok(i, k) == LitAt(lt, i, alts[k]) /\ BoundaryAt(t, i)
                    /\ BoundaryAt(t, i + Len(alts[k]))
      hits == {i \in 1..Len(t) : \E k \in 1..Len(alts) : ok(i, k)}
  IN IF hits = {} THEN NoMatch
     ELSE LET i == Min(hits)
              k == Min({j \in 1..Len(alts) : ok(i, j)})
          IN [start |-> i, stop |-> i + Len(alts[k]),
              group |-> SubSeq(t, i, i + Len(alts[k]) - 1)]

\* The tail "(a|an|the)?\s*(\w+)" of the object patterns, tried at position r:
\* the alternatives are tried in order, each followed by \s* and a word; the
\* optional group is skipped only when every alternative fails.
ARTICLES == <<"a", "an", "the">>

ArticleTail(t, r) ==
  LET lt == Lower(t)
      viaArt(k) == LitAt(lt, r, ARTICLES[k])
                     /\ IsWordAt(t, SkipSpaces(t, r + Len(ARTICLES[k])))
      arts == {k \in 1..Len(ARTICLES) : viaArt(k)}
      s == IF arts # {} THEN SkipSpaces(t, r + Len(ARTICLES[Min(arts)])) ELSE r
  IN IF ~IsWordAt(t, s) THEN NoMatch
     ELSE [start |-> s, stop |-> WordEnd(t, s),
           group |-> SubSeq(t, s, WordEnd(t, s) - 1)]

(***************************************************************************)
(* tools/parser.py                                                         *)
(***************************************************************************)

\* The loader's profession table (server.py get_transformation_maps).
profession_to_icon_props ==
  [chef |-> "oversized white chef hat and red neckerchief",
   firefighter |-> "bright yellow helmet with red suspenders",
   doctor |-> "white coat and stethoscope around neck"]

emotion_to_mascot_face ==
  [happy |-> "wide smile with sparkles in eyes, cheeks raised in joy",
   sad |-> "single large tear drop, downturned mouth with slight frown"]

location_to_fantasy ==
  [kitchen |-> "alchemist's laboratory with bubbling cauldrons and mystical ingredients"]

\* What get_transformation_maps builds and caches.
TransformationMapsValue ==
  [profession_to_icon_props |-> profession_to_icon_props,
   emotion_to_mascot_face |-> emotion_to_mascot_face,
   location_to_fantasy |-> location_to_fantasy]

\* extract_subject: the pattern table, in dict order.
SUBJECT_TYPES == <<"human", "animal", "object", "food">>

subjects ==
  [human |-> <<"person", "people", "man", "woman", "child", "kid", "adult",
               "teenager", "boy", "girl", "chef", "doctor", "firefighter",
               "teacher", "artist", "musician", "pilot", "detective",
               "scientist", "astronaut", "athlete", "dancer", "singer",
               "wizard", "warrior", "knight", "pirate", "ninja", "superhero">>,
   animal |-> <<"cat", "dog", "bird", "fish", "horse", "lion", "tiger", "bear",
                "elephant", "dragon", "phoenix", "unicorn", "griffin",
                "kitten", "puppy">>,
   object |-> <<"car", "boat", "plane", "bicycle", "train", "rocket", "sword",
                "hammer", "book", "computer", "phone", "camera", "chair",
                "table">>,
   food |-> <<"pizza", "burger", "sandwich", "taco", "pasta", "apple",
              "banana", "strawberry", "cake", "cookie", "donut">>]

COUNT_WORDS == <<"two", "three", "four", "five", "six", "2", "3", "4", "5", "6">>

count_map == <<2, 3, 4, 5, 6, 2, 3, 4, 5, 6>>

\* re.search(rf'\b(\w+)\s+{subject_name}\b', prompt, re.IGNORECASE).group(1)
AttrBefore(t, name) ==
  LET lname == Lower(name)
      lt == Lower(t)
      ok(i) == /\ IsWordAt(t, i) /\ BoundaryAt(t, i)
               /\ LET e == WordEnd(t, i)
                      r == SkipSpaces(t, e)
                  IN r > e /\ LitAt(lt, r, lname) /\ BoundaryAt(t, r + Len(lname))
      hits == {i \in 1..Len(t) : ok(i)}
  IN IF hits = {} THEN <<>>
     ELSE <<SubSeq(t, Min(hits), WordEnd(t, Min(hits)) - 1)>>

\* re.search(r'\b(two|...|6)\s+' + subject_name, prompt, re.IGNORECASE)
CountBefore(t, name) ==
  LET lname == Lower(name)
      lt == Lower(t)
      ok(i, k) == /\ BoundaryAt(t, i) /\ LitAt(lt, i, COUNT_WORDS[k])
                  /\ LET e == i + Len(COUNT_WORDS[k])
                         r == SkipSpaces(t, e)
                     IN r > e /\ LitAt(lt, r, lname)
      hits == {i \in 1..Len(t) : \E k \in 1..Len(COUNT_WORDS) : ok(i, k)}
  IN IF hits = {} THEN 1
     ELSE count_map[Min({k \in 1..Len(COUNT_WORDS) : ok(Min(hits), k)})]

\* Variant: the fall-through return reports one subject.
DefaultSubject_one ==
  [type |-> "abstract", name |-> None, attributes |-> <<>>,
   profession |-> None, count |-> 1]

DefaultSubject ==
  [type |-> "abstract", name |-> None, attributes |-> <<>>,
   profession |-> None, count |-> 0]

RECURSIVE SubjectFrom(_, _, _)
SubjectFrom(prompt, maps, k) ==
  IF k > Len(SUBJECT_TYPES) THEN DefaultSubject
  ELSE LET subject_type == SUBJECT_TYPES[k]
           match == SearchWord(prompt, subjects[subject_type])
       IN IF match = NoMatch THEN SubjectFrom(prompt, maps, k + 1)
          ELSE LET subject_name == match.group
               IN [type |-> subject_type,
                   name |-> subject_name,
                   attributes |-> AttrBefore(prompt, subject_name),
                   profession |->
                     IF subject_type = "human"
                        /\ Lower(subject_name) \in DOMAIN maps.profession_to_icon_props
                     THEN Lower(subject_name) ELSE None,
                   count |-> CountBefore(prompt, subject_name)]

extract_subject(prompt, transformation_maps) ==
  SubjectFrom(prompt, transformation_maps, 1)

\* extract_action: the verb table, in dict order.
ENERGY_KEYS == <<"high_energy", "medium_energy", "low_energy">>

actions ==
  [high_energy |-> <<"running", "jumping", "flying", "racing", "sprinting",
                     "leaping", "dashing">>,
   medium_energy |-> <<"walking", "swimming", "climbing", "dancing", "playing",
                       "working", "cooking">>,
   low_energy |-> <<"sitting", "standing", "lying", "resting", "reading",
                    "thinking", "meditating">>]

\* energy_level.replace('_energy', '')
StripEnergy(key) ==
  CASE key = "high_energy" -> "high"
    [] key = "medium_energy" -> "medium"
    [] key = "low_energy" -> "low"

intensity_modifiers ==
  <<"violently", "intensely", "quickly", "slowly", "gently", "carefully">>

\* First entry of a list that occurs in the text, or None.
FirstContained(lt, words) ==
  LET hits == {k \in 1..Len(words) : Contains(lt, words[k])}
  IN IF hits = {} THEN None ELSE words[Min(hits)]

\* re.search(rf'{verb}\s+(a|an|the)?\s*(\w+)', prompt, re.IGNORECASE).group(2)
ObjectAfter(t, verb) ==
  LET lt == Lower(t)
      tail(i) == LET e == i + Len(verb)
                     r == SkipSpaces(t, e)
                 IN IF LitAt(lt, i, verb) /\ r > e THEN ArticleTail(t, r)
                    ELSE NoMatch
      hits == {i \in 1..Len(t) : tail(i) # NoMatch}
  IN IF hits = {} THEN None ELSE tail(Min(hits)).group

DefaultAction ==
  [verb |-> None, energy_level |-> "low", object |-> None, modifier |-> None,
   progressive |-> FALSE]

\* All (tier, verb) pairs in the order the nested loops visit them.
VerbScan ==
  LET row(k) == [j \in 1..Len(actions[ENERGY_KEYS[k]]) |->
                   [energy_level |-> ENERGY_KEYS[k],
                    verb |-> actions[ENERGY_KEYS[k]][j]]]
  IN row(1) \o row(2) \o row(3)

\* Variant: the verb that stands first in the text is returned, of whatever
\* tier it is.
extract_action_textorder(prompt) ==
  LET lt == Lower(prompt)
      at(k) == {i \in 1..Len(lt) : LitAt(lt, i, VerbScan[k].verb)}
      hits == {k \in 1..Len(VerbScan) : at(k) # {}}
  IN IF hits = {} THEN DefaultAction
     ELSE LET e == VerbScan[CHOOSE k \in hits :
                              \A h \in hits : Min(at(k)) <= Min(at(h))]
          IN [verb |-> e.verb,
              energy_level |-> StripEnergy(e.energy_level),
              object |-> ObjectAfter(prompt, e.verb),
              modifier |-> FirstContained(lt, intensity_modifiers),
              progressive |-> Contains(lt, "ing")]

extract_action(prompt) ==
  LET lt == Lower(prompt)
      hits == {k \in 1..Len(VerbScan) : Contains(lt, VerbScan[k].verb)}
  IN IF hits = {} THEN DefaultAction
     ELSE LET e == VerbScan[Min(hits)]
          IN [verb |-> e.verb,
              energy_level |-> StripEnergy(e.energy_level),
              object |-> ObjectAfter(prompt, e.verb),
              modifier |-> FirstContained(lt, intensity_modifiers),
              progressive |-> Contains(lt, "ing")]

\* extract_setting: the pattern table, in dict order.
SETTING_TYPES ==
  <<"indoor_specific", "indoor_generic", "outdoor_natural", "outdoor_urban",
    "fantasy">>

settings ==
  [indoor_specific |-> <<"kitchen", "bedroom", "office", "classroom",
                         "library", "lab", "studio", "garage", "bathroom",
                         "hallway">>,
   indoor_generic |-> <<"inside", "indoors", "room", "building", "house">>,
   outdoor_natural |-> <<"forest", "mountain", "beach", "desert", "jungle",
                         "field", "river", "lake", "ocean", "park", "garden">>,
   outdoor_urban |-> <<"street", "city", "downtown", "alley", "plaza",
                       "rooftop", "sidewalk">>,
   fantasy |-> <<"castle", "dungeon", "spaceship", "alien planet",
                 "magical realm", "dimension">>]

atmosphere_words ==
  <<"busy", "quiet", "dark", "bright", "crowded", "empty", "chaotic",
    "peaceful">>

TIME_WORDS ==
  <<"dawn", "sunrise", "morning", "noon", "afternoon", "sunset", "dusk",
    "evening", "night", "midnight">>

DefaultSetting ==
  [type |-> "abstract", location |-> None, attributes |-> <<>>, time |-> None]

RECURSIVE SettingFrom(_, _)
SettingFrom(prompt, k) ==
  IF k > Len(SETTING_TYPES) THEN DefaultSetting
  ELSE LET setting_type == SETTING_TYPES[k]
           match == SearchWord(prompt, settings[setting_type])
       IN IF match = NoMatch THEN SettingFrom(prompt, k + 1)
          ELSE [type |-> setting_type,
                location |-> match.group,
                attributes |->
                  LET lt == Lower(prompt)
                  IN SelectSeq(atmosphere_words, LAMBDA w : Contains(lt, w)),
                time |-> SearchWord(prompt, TIME_WORDS).group]

extract_setting(prompt) == SettingFrom(prompt, 1)

PREPOSITIONS == <<"with", "holding", "carrying", "near", "beside">>

\* One match of r'\b(with|holding|carrying|near|beside)\s+(a|an|the)?\s*(\w+)\b'
\* starting exactly at position i, or NoMatch.
PropAt(t, i) ==
  LET lt == Lower(t)
      ks == {k \in 1..Len(PREPOSITIONS) :
               /\ BoundaryAt(t, i) /\ LitAt(lt, i, PREPOSITIONS[k])
               /\ SkipSpaces(t, i + Len(PREPOSITIONS[k])) > i + Len(PREPOSITIONS[k])}
  IN IF ks = {} THEN NoMatch
     ELSE ArticleTail(t, SkipSpaces(t, i + Len(PREPOSITIONS[Min(ks)])))

RECURSIVE PropsFrom(_, _)
\* re.finditer: non-overlapping matches, scanning from position from.
PropsFrom(t, from) ==
  LET hits == {i \in from..Len(t) : PropAt(t, i) # NoMatch}
  IN IF hits = {} THEN <<>>
     ELSE LET m == PropAt(t, Min(hits))
          IN <<m.group>> \o PropsFrom(t, m.stop)

extract_objects(prompt) == PropsFrom(prompt, 1)

colors ==
  <<"red", "blue", "green", "yellow", "orange", "purple", "pink", "black",
    "white", "brown", "gray", "cyan", "magenta", "teal", "gold", "silver">>

extract_colors(prompt) ==
  LET lt == Lower(prompt)
  IN SelectSeq(colors, LAMBDA c : Contains(lt, c))

VALENCES == <<"positive", "negative", "neutral">>

emotions ==
  [positive |-> <<"happy", "joyful", "excited", "proud", "confident",
                  "cheerful", "delighted">>,
   negative |-> <<"sad", "angry", "afraid", "worried", "frustrated", "tired",
                  "exhausted", "lonely">>,
   neutral |-> <<"calm", "peaceful", "focused", "curious", "contemplative">>]

DefaultMood == [emotion |-> None, valence |-> "neutral", intensity |-> "medium"]

EmotionScan ==
  LET row(k) == [j \in 1..Len(emotions[VALENCES[k]]) |->
                   [valence |-> VALENCES[k], emotion |-> emotions[VALENCES[k]][j]]]
  IN row(1) \o row(2) \o row(3)

extract_mood(prompt) ==
  LET lt == Lower(prompt)
      hits == {k \in 1..Len(EmotionScan) : Contains(lt, EmotionScan[k].emotion)}
  IN IF hits = {} THEN DefaultMood
     ELSE [emotion |-> EmotionScan[Min(hits)].emotion,
           valence |-> EmotionScan[Min(hits)].valence,
           intensity |->
             IF Contains(lt, "very") \/ Contains(lt, "extremely") THEN "high"
             ELSE IF Contains(lt, "slightly") \/ Contains(lt, "a bit") THEN "low"
             ELSE "medium"]

parse_prompt_components(prompt, transformation_maps) ==
  [subject |-> extract_subject(prompt, transformation_maps),
   action |-> extract_action(prompt),
   setting |-> extract_setting(prompt),
   objects |-> extract_objects(prompt),
   colors |-> extract_colors(prompt),
   mood |-> extract_mood(prompt)]

(***************************************************************************)
(* tools/utils.py: calculate_semantic_weights                              *)
(***************************************************************************)

\* dict.get(key, default)
Get(d, k, default) == IF k \in DOMAIN d THEN d[k] ELSE default

WEIGHT_KEYS == <<"subject", "action", "setting", "objects", "colors", "mood">>

\* str.endswith('_specific')
EndsWithSpecific(s) ==
  Len(s) >= 9 /\ SubSeq(s, Len(s) - 8, Len(s)) = "_specific"

\* The raw scores, before normalisation (utils.py lines 9-41).
RawWeights(components) ==
  [subject |->
     (IF Truthy(components.subject.name) THEN 40 ELSE 0)
     + (IF Len(components.subject.attributes) > 1
           \/ Truthy(components.subject.profession) THEN 10 ELSE 0),
   action |->
     (IF Truthy(components.action.verb) THEN 30 ELSE 0)
     + (IF components.action.energy_level \in {"high", "extreme"} THEN 10 ELSE 0),
   setting |->
     (IF Truthy(components.setting.location) THEN 15 ELSE 0)
     + (IF EndsWithSpecific(components.setting.type) THEN 10 ELSE 0),
   objects |-> IF components.objects # <<>> THEN 10 ELSE 0,
   colors |-> 0,
   mood |-> IF Truthy(components.mood.emotion) THEN 5 ELSE 0]

RECURSIVE SumOver(_, _)
\* sum(d.values()) over the keys listed in keys.
SumOver(d, keys) ==
  IF keys = <<>> THEN 0 ELSE d[Head(keys)] + SumOver(d, Tail(keys))

\* Variant: round((w / total) * 100), to the nearest integer.
Normalize_round(w, total) == (2 * w * 100 + total) \div (2 * total)

\* int((w / total) * 100): the float quotient truncated toward zero, which for
\* the non-negative scores here is the integer quotient of 100*w by total.
Normalize(w, total) == (w * 100) \div total

\* Variant: the normalisation step is left out.
calculate_semantic_weights_raw(components) == RawWeights(components)

calculate_semantic_weights(components) ==
  LET weights == RawWeights(components)
      total == SumOver(weights, WEIGHT_KEYS)
  IN IF total > 0
     THEN [k \in DOMAIN weights |-> Normalize(weights[k], total)]
     ELSE weights

(***************************************************************************)
(* server.py: OlogLoader, the rule catalog                                 *)
(***************************************************************************)

\* olog['types']['Category']['instances'] of cereal_box_styles.olog.yaml.
CategoryInstances ==
  <<"mascot_theater", "health_halo", "nostalgia_revival", "premium_disruptor",
    "kid_chaos", "transparent_honest", "adventure_fantasy">>

EmptyDict == <<>>

_build_subject_rules(category_name) ==
  CASE category_name = "mascot_theater" ->
         [human |->
            [treatment |-> "cartoon_mascot",
             features |-> <<"oversized head (1.5x proportion)",
                            "simplified 4-finger hands", "simplified anatomy",
                            "expressive eyes">>,
             attributes |-> <<"bold black outlines", "thick drop shadows",
                              "white gloves optional">>],
          animal |->
            [treatment |-> "anthropomorphized",
             features |-> <<"bipedal stance", "clothed", "expressive eyebrows",
                            "human-like gestures">>,
             attributes |-> <<"bold outlines", "simple rounded shapes">>],
          object |->
            [treatment |-> "personified",
             features |-> <<"add face with googly eyes", "add limbs and hands",
                            "personality expression">>,
             attributes |-> <<"friendly smile or expression">>]]
    [] category_name = "health_halo" ->
         [human |->
            [treatment |-> "hands_only_or_silhouette",
             features |-> <<"cropped to hands in close-up",
                            "partial face in shadow", "no identifying features",
                            "focus on capable gestures">>,
             attributes |-> <<"natural skin tones", "minimal styling",
                              "authentic presence">>],
          animal |->
            [treatment |-> "naturalistic",
             features |-> <<"documentary photography style", "natural behavior",
                            "real environment">>,
             attributes |-> <<"soft focus background", "natural colors">>],
          object |->
            [treatment |-> "deconstructed_materials",
             features |-> <<"shown as raw materials", "ingredient stage",
                            "component parts visible">>,
             attributes |-> <<"texture visible", "natural finish",
                              "organized flat-lay arrangement">>]]
    [] OTHER -> EmptyDict

base_actions ==
  [low_energy |-> EmptyDict, medium_energy |-> EmptyDict,
   high_energy |-> EmptyDict]

_build_action_rules(category_name) ==
  CASE category_name = "mascot_theater" ->
         [low_energy |->
            [treatment |-> "friendly gesture",
             features |-> <<"static pose", "one hand waving or pointing",
                            "welcoming stance">>,
             effects |-> <<"small sparkles", "simple motion line">>],
          medium_energy |->
            [treatment |-> "animated motion",
             features |-> <<"leaning into action", "arms in motion",
                            "one foot slightly raised">>,
             effects |-> <<"motion lines", "small starbursts",
                           "action swooshes">>],
          high_energy |->
            [treatment |-> "dynamic mid-action",
             features |-> <<"mid-leap or jump", "one foot always off ground",
                            "arms spread wide", "hair/clothing flowing">>,
             effects |-> <<"speed lines", "motion blur trail", "dust clouds",
                           "large starbursts", "impact marks">>]]
    [] OTHER -> base_actions

_build_setting_rules(category_name) ==
  CASE category_name = "mascot_theater" ->
         [indoor |->
            [treatment |-> "simplified_icons",
             elements |-> "2-3 key objects only",
             background |-> "flat solid color with no detail"],
          outdoor |->
            [treatment |-> "generic_simple",
             elements |-> "blue sky, white puffy clouds, green ground line, simple curved hills",
             background |-> "no texture, basic shapes"],
          abstract |->
            [treatment |-> "radial_sunburst",
             elements |-> "concentric circles or radiating lines",
             background |-> "bright primary color"]]
    [] OTHER -> EmptyDict

_build_color_rules(category_name) ==
  CASE category_name = "mascot_theater" ->
         [mappings |->
            [blue |-> "bright primary blue", red |-> "cherry red",
             green |-> "lime green", yellow |-> "sunshine yellow",
             purple |-> "grape purple", orange |-> "bright orange",
             pink |-> "bubblegum pink"],
          always_add |-> "complementary accent color",
          saturation |-> "maximum",
          gradients |-> FALSE,
          max_colors |-> 4,
          default_palette |-> "bright primary colors (red, blue, yellow)"]
    [] OTHER -> EmptyDict

_extract_mandatory_markers(category_name) ==
  CASE category_name = "mascot_theater" ->
         <<"cartoon character", "bold black outlines",
           "commercial illustration style", "bright primary colors">>
    [] category_name = "health_halo" ->
         <<"natural palette", "clean composition", "matte finish aesthetic",
           "soft natural lighting">>
    [] OTHER -> <<>>

_extract_negative_prompts(category_name) ==
  CASE category_name = "mascot_theater" ->
         <<"realistic", "photographic", "detailed anatomy", "complex shading",
           "gradient backgrounds", "violent", "dark", "gritty">>
    [] category_name = "health_halo" ->
         <<"cartoon", "bright neon colors", "artificial", "cluttered",
           "dramatic lighting", "busy background">>
    [] OTHER -> <<>>

_extract_visual_dna(category_name) ==
  CASE category_name = "mascot_theater" ->
         <<"cartoon character", "bold black outlines", "bright primary colors",
           "motion lines", "starbursts", "bubbly typography",
           "oversized proportions", "commercial illustration style">>
    [] category_name = "health_halo" ->
         <<"natural palette", "abundant white space", "soft natural lighting",
           "texture emphasis", "clean typography", "documentary style",
           "muted saturation">>
    [] category_name = "nostalgia_revival" ->
         <<"vintage color palette", "screen print aesthetic",
           "period-accurate styling", "limited color separation",
           "halftone texture", "era-specific typography">>
    [] category_name = "premium_disruptor" ->
         <<"dark negative space", "luxury minimalism",
           "selective metallic accents", "dramatic rim lighting",
           "high contrast composition", "refined simplicity">>
    [] category_name = "kid_chaos" ->
         <<"neon saturation", "pattern explosion", "impossible perspectives",
           "maximum density", "chaotic energy", "exuberant colors",
           "wild typography">>
    [] category_name = "transparent_honest" ->
         <<"clinical white background", "infographic elements",
           "labeled components", "systematic layout",
           "technical documentation", "grid organization",
           "transparent clarity">>
    [] category_name = "adventure_fantasy" ->
         <<"cinematic composition", "dramatic atmospheric lighting",
           "magical particle effects", "epic scale", "fantasy world aesthetic",
           "volumetric lighting", "mystical elements">>
    [] OTHER -> <<>>

_extract_compatible_moods(category_name) ==
  CASE category_name = "mascot_theater" ->
         <<"happy", "excited", "energetic", "playful", "joyful">>
    [] category_name = "health_halo" ->
         <<"calm", "peaceful", "focused", "authentic", "mindful">>
    [] category_name = "nostalgia_revival" ->
         <<"nostalgic", "comfortable", "warm", "reflective">>
    [] category_name = "premium_disruptor" ->
         <<"sophisticated", "refined", "elegant", "minimal">>
    [] category_name = "kid_chaos" ->
         <<"chaotic", "wild", "energetic", "exuberant", "extreme">>
    [] category_name = "transparent_honest" ->
         <<"neutral", "focused", "educational", "clinical">>
    [] category_name = "adventure_fantasy" ->
         <<"dramatic", "mysterious", "powerful", "adventurous", "magical">>
    [] OTHER -> <<>>

_extract_trigger_keywords(category_name) ==
  CASE category_name = "mascot_theater" ->
         <<"fun", "playful", "kids", "mascot", "cartoon", "energetic">>
    [] category_name = "health_halo" ->
         <<"natural", "organic", "healthy", "authentic", "minimal", "wellness">>
    [] category_name = "nostalgia_revival" ->
         <<"vintage", "retro", "nostalgic", "throwback", "classic">>
    [] category_name = "premium_disruptor" ->
         <<"luxury", "premium", "elegant", "minimal", "sophisticated">>
    [] category_name = "kid_chaos" ->
         <<"crazy", "wild", "extreme", "chaos", "explosion", "maximum">>
    [] category_name = "transparent_honest" ->
         <<"transparent", "honest", "educational", "technical", "scientific">>
    [] category_name = "adventure_fantasy" ->
         <<"epic", "fantasy", "magical", "legendary", "heroic", "mystical">>
    [] OTHER -> <<>>

\* intent_olog['instances'] of cereal_box_intentionality.olog.yaml: the
\* per-category entries with the keys why_this_works, ideal_subjects,
\* commercial_promise, core_intention and composition_principle.  A category
\* without an entry is read as the empty dict (get_categories, line 87).
\* The file is not part of the sources; what is known of it is what the
\* tests of TestCategoryIntention assert: the core intention of
\* mascot_theater and of health_halo, and that their composition principles
\* hold the words joy and trust.  The principles stand here as those words.
IntentInstances ==
  [mascot_theater |-> [core_intention |-> "playful_commercialism",
                       composition_principle |-> "joy"],
   health_halo |-> [core_intention |-> "authentic_naturalism",
                    composition_principle |-> "trust"]]

\* intent_olog['instances'].get(category_name, {})
IntentData(category_name) == Get(IntentInstances, category_name, EmptyDict)

RECURSIVE FirstLineFrom(_, _)
FirstLineFrom(s, i) ==
  IF i > Len(s) \/ SubSeq(s, i, i) = "\n" THEN SubSeq(s, 1, i - 1)
  ELSE FirstLineFrom(s, i + 1)

\* s.split('\n')[0]
FirstLine(s) == FirstLineFrom(s, 1)

\* Variant: the record is built without the key composition_principle.
_build_category_structure_short(category_name, intent_data) ==
  [name |-> category_name,
   description |-> FirstLine(Get(intent_data, "why_this_works", "")),
   visual_dna |-> _extract_visual_dna(category_name),
   ideal_subjects |-> Get(intent_data, "ideal_subjects",
                          <<"human", "animal", "object">>),
   compatible_moods |-> _extract_compatible_moods(category_name),
   trigger_keywords |-> _extract_trigger_keywords(category_name),
   commercial_promise |-> Get(intent_data, "commercial_promise", ""),
   core_intention |-> Get(intent_data, "core_intention", ""),
   subject_rules |-> _build_subject_rules(category_name),
   action_rules |-> _build_action_rules(category_name),
   setting_rules |-> _build_setting_rules(category_name),
   color_rules |-> _build_color_rules(category_name),
   mandatory_markers |-> _extract_mandatory_markers(category_name),
   negative_prompts |-> _extract_negative_prompts(category_name)]

\* One category record, built from the category name and its entry of the
\* intentionality olog.
_build_category_structure(category_name, intent_data) ==
  [name |-> category_name,
   description |-> FirstLine(Get(intent_data, "why_this_works", "")),
   visual_dna |-> _extract_visual_dna(category_name),
   ideal_subjects |-> Get(intent_data, "ideal_subjects",
                          <<"human", "animal", "object">>),
   compatible_moods |-> _extract_compatible_moods(category_name),
   trigger_keywords |-> _extract_trigger_keywords(category_name),
   commercial_promise |-> Get(intent_data, "commercial_promise", ""),
   core_intention |-> Get(intent_data, "core_intention", ""),
   composition_principle |-> Get(intent_data, "composition_principle", ""),
   subject_rules |-> _build_subject_rules(category_name),
   action_rules |-> _build_action_rules(category_name),
   setting_rules |-> _build_setting_rules(category_name),
   color_rules |-> _build_color_rules(category_name),
   mandatory_markers |-> _extract_mandatory_markers(category_name),
   negative_prompts |-> _extract_negative_prompts(category_name)]

\* What get_categories builds: one record per category instance.
CategoriesValue ==
  [c \in {CategoryInstances[i] : i \in 1..Len(CategoryInstances)} |->
     _build_category_structure(c, IntentData(c))]

\* get_templates: the table the method builds and stores in its cache ...
template_map ==
  [mascot_theater |->
     [emphasis_order |-> <<"subject", "action", "effects", "setting", "colors",
                           "typography", "style_markers">>,
      structure |-> "Subject → Action → Setting → Colors → Effects → Typography → Style Markers"]]

\* ... and the local dict "templates" that it returns on a cache miss, which
\* is never filled.
templates == EmptyDict

(***************************************************************************)
(* tools/transformer.py                                                    *)
(*                                                                         *)
(* Style parameters are records with optional fields.  The float fields    *)
(* energy_level and composition_density are kept in hundredths (1.0 is     *)
(* 100), so the comparisons with 1.0, 0.5 and 0.8 are exact.               *)
(* A fragment is a string; an exception that escapes a transform function  *)
(* is the string Raise(<exception name>).                                  *)
(***************************************************************************)

Raise(e) == "<raise " \o e \o ">"

Exceptions == {"AttributeError", "TypeError", "KeyError", "ValueError"}

IsRaise(v) == \E e \in Exceptions : v = Raise(e)

RECURSIVE ReplaceChar(_, _, _)
\* str.replace(a, b) for a single character a.
ReplaceChar(s, a, b) ==
  IF s = "" THEN ""
  ELSE (IF SubSeq(s, 1, 1) = a THEN b ELSE SubSeq(s, 1, 1))
       \o ReplaceChar(Tail(s), a, b)

\* ', '.join(parts), which raises TypeError when an item is None.
JoinParts(parts) ==
  IF \E i \in 1..Len(parts) : parts[i] = None THEN Raise("TypeError")
  ELSE Join(", ", parts)

DIGITS == <<"0", "1", "2", "3", "4", "5", "6", "7", "8", "9">>

RECURSIVE IntStr(_)
\* str(n) for n >= 0
IntStr(n) ==
  IF n < 10 THEN DIGITS[n + 1] ELSE IntStr(n \div 10) \o DIGITS[(n % 10) + 1]

\* transform_subject without the profession props of lines 41-45.
transform_subject_noprops(subject, rules, maps, params) ==
  LET subject_type == subject.type
      subject_name == subject.name
  IN IF subject_type \notin DOMAIN rules.subject_rules THEN Str(subject_name)
     ELSE LET subject_rule == rules.subject_rules[subject_type]
              treatment == Get(subject_rule, "treatment", "standard")
              features == Get(subject_rule, "features", <<>>)
              attributes == Get(subject_rule, "attributes", <<>>)
              emotion_map == maps.emotion_to_mascot_face
              prop == <<>>
              own == [i \in 1..Len(subject.attributes) |->
                        IF subject.attributes[i] \in DOMAIN emotion_map
                        THEN emotion_map[subject.attributes[i]]
                        ELSE subject.attributes[i] \o " appearance"]
          IN JoinParts(<<ReplaceChar(treatment, "_", " "), subject_name>>
                       \o prop \o features \o attributes \o own)

transform_subject(subject, rules, maps, params) ==
  LET subject_type == subject.type
      subject_name == subject.name
  IN IF subject_type \notin DOMAIN rules.subject_rules THEN Str(subject_name)
     ELSE LET subject_rule == rules.subject_rules[subject_type]
              treatment == Get(subject_rule, "treatment", "standard")
              features == Get(subject_rule, "features", <<>>)
              attributes == Get(subject_rule, "attributes", <<>>)
              prof_map == maps.profession_to_icon_props
              emotion_map == maps.emotion_to_mascot_face
              prop == IF Truthy(subject.profession)
                         /\ subject.profession \in DOMAIN prof_map
                      THEN <<"with " \o prof_map[subject.profession]>>
                      ELSE <<>>
              own == [i \in 1..Len(subject.attributes) |->
                        IF subject.attributes[i] \in DOMAIN emotion_map
                        THEN emotion_map[subject.attributes[i]]
                        ELSE subject.attributes[i] \o " appearance"]
          IN JoinParts(<<ReplaceChar(treatment, "_", " "), subject_name>>
                       \o prop \o features \o attributes \o own)

transform_action(action, rules, maps, params) ==
  LET verb == action.verb
  IN IF ~Truthy(verb) THEN "in neutral pose"
     ELSE LET action_rules == rules.action_rules
              energy_level == IF action.energy_level \notin DOMAIN action_rules
                              THEN "low_energy" ELSE action.energy_level
          IN IF energy_level \notin DOMAIN action_rules THEN Raise("KeyError")
             ELSE
               LET action_rule == action_rules[energy_level]
                   treatment == Get(action_rule, "treatment", "")
                   features == Get(action_rule, "features", <<>>)
                   effects0 == Get(action_rule, "effects", <<>>)
                   energy_multiplier == Get(params, "energy_level", 100)
                   effects == IF energy_multiplier > 100 /\ effects0 # <<>>
                              THEN [i \in 1..Len(effects0) |->
                                      effects0[i] \o " intensified"]
                              ELSE effects0
                   category == rules.name
                   obj == IF ~Truthy(action.object) THEN <<>>
                          ELSE IF Contains(category, "mascot")
                                  \/ Contains(category, "kid_chaos")
                          THEN <<"with comically oversized " \o action.object>>
                          ELSE <<"with " \o action.object>>
               IN Join(", ", <<verb \o " with " \o treatment>> \o features \o obj
                             \o (IF effects # <<>> THEN <<Join(", ", effects)>>
                                 ELSE <<>>))

transform_setting(setting, rules, params) ==
  LET setting_type == setting.type
      location == setting.location
      setting_rules == rules.setting_rules
      rule_key == IF setting_type \in DOMAIN setting_rules THEN setting_type
                  ELSE IF Contains(setting_type, "indoor") THEN "indoor"
                  ELSE IF Contains(setting_type, "outdoor") THEN "outdoor"
                  ELSE "abstract"
  IN IF rule_key \notin DOMAIN setting_rules THEN Str(location) \o " background"
     ELSE LET setting_rule == setting_rules[rule_key]
              treatment == Get(setting_rule, "treatment", "")
              elements == Get(setting_rule, "elements", "")
              background == Get(setting_rule, "background", "")
          IN Join(", ", <<Str(location) \o " " \o treatment>>
                        \o (IF elements # "" THEN <<"with " \o elements>> ELSE <<>>)
                        \o (IF background # "" THEN <<background>> ELSE <<>>)
                        \o (IF Truthy(setting.time) THEN <<"at " \o setting.time>>
                            ELSE <<>>))

transform_colors(colorList, rules, params) ==
  LET color_rules == rules.color_rules
      mappings == Get(color_rules, "mappings", EmptyDict)
      saturation == Get(params, "color_saturation",
                        Get(color_rules, "saturation", "medium"))
  IN IF colorList = <<>>
     THEN Get(color_rules, "default_palette", "natural balanced colors")
          \o ", " \o saturation \o " saturation"
     ELSE LET mapped == [i \in 1..Len(colorList) |->
                           IF colorList[i] \in DOMAIN mappings
                           THEN mappings[colorList[i]] ELSE colorList[i]]
              transformed ==
                IF Get(color_rules, "always_add", None) = "complementary accent color"
                THEN Append(mapped, "with complementary accent") ELSE mapped
              palette_desc == Join(", ", SubSeq(transformed, 1,
                                 IF Len(transformed) < 3 THEN Len(transformed) ELSE 3))
              max_colors == Get(color_rules, "max_colors", 0)
          IN Join(", ", <<"color palette of " \o palette_desc,
                          saturation \o " saturation">>
                        \o (IF ~Get(color_rules, "gradients", TRUE)
                            THEN <<"flat colors with no gradients">> ELSE <<>>)
                        \o (IF max_colors # 0
                            THEN <<"limited to " \o IntStr(max_colors)
                                   \o " colors maximum">>
                            ELSE <<>>))

effects_map ==
  [mascot_theater |->
     <<"white starburst highlights on curved surfaces",
       "radial sunburst background lines",
       "scattered floating sparkle effects",
       "thick drop shadows for depth">>,
   health_halo |->
     <<"soft lens bokeh in background",
       "natural dust particles visible in light beam",
       "subtle vignette framing",
       "shallow depth of field">>,
   nostalgia_revival |->
     <<"visible halftone dot pattern",
       "slight paper texture and grain",
       "intentional registration offset for vintage print feel",
       "limited spot color separation">>,
   premium_disruptor |->
     <<"gold foil catching single light source",
       "extreme rim lighting creating halo",
       "selective focus with razor-thin depth of field",
       "dramatic shadows in 90% of composition">>,
   kid_chaos |->
     <<"speed lines radiating from all edges",
       "explosive starburst effects in multiple neon colors",
       "lightning bolts and electricity crackling",
       "holographic rainbow gradient overlays",
       "motion blur trails showing energy">>,
   transparent_honest |->
     <<"crisp sharp focus throughout with no artistic blur",
       "even clinical lighting eliminating shadows",
       "grid overlay with measurements visible",
       "labeled components and specifications">>,
   adventure_fantasy |->
     <<"volumetric god rays breaking through atmosphere",
       "magical particle effects floating in air",
       "dramatic rim lighting with colored gels",
       "ethereal glow on mystical elements",
       "cinematic lens flare">>]

\* list[:n]
Take(list, n) == SubSeq(list, 1, IF Len(list) < n THEN Len(list) ELSE n)

transform_effects(category, components, params) ==
  LET effects == Get(effects_map, category, <<>>)
      density == Get(params, "composition_density", 70)
  IN Join(", ", IF density < 50 THEN Take(effects, 2)
                ELSE IF density > 80 THEN effects
                ELSE Take(effects, 3))

TYPOGRAPHY_CATEGORIES == {"mascot_theater", "kid_chaos", "nostalgia_revival"}

transform_typography(subject, category, params) ==
  LET subject_name == subject.name
      profession == IF Truthy(subject.profession) THEN subject.profession
                    ELSE subject_name
  IN IF category \notin TYPOGRAPHY_CATEGORIES THEN None
     ELSE IF profession = None THEN Raise("AttributeError")
     ELSE IF category = "mascot_theater"
     THEN "bubbly curved typography spelling '" \o Upper(profession)
          \o " CRUNCH' arcing over scene, thick inline and outline effects"
     ELSE IF category = "kid_chaos"
     THEN "chrome metallic text spelling '" \o Upper(profession)
          \o " BLAST' with lightning bolt letters, extreme 3D extrusion, neon glow"
     ELSE LET era == Get(params, "era", "1970s")
          IN "hand-lettered " \o era \o " typography reading '"
             \o Upper(profession) \o " - SINCE " \o Prefix(era, 4)
             \o "', distressed letterpress texture, slab serif style"

TRANSFORMED_KEYS ==
  <<"subject", "action", "setting", "colors", "effects", "style_markers",
    "typography">>

\* The exception raised while the result dict is built, if any: the items are
\* evaluated in the order they are written.
FirstRaise(vals) ==
  LET bad == {i \in 1..Len(vals) : IsRaise(vals[i])}
  IN IF bad = {} THEN None ELSE vals[Min(bad)]

apply_category_transformation(components, rules, transformation_maps, params) ==
  LET category == rules.name
      subject == transform_subject(components.subject, rules, transformation_maps, params)
      action == transform_action(components.action, rules, transformation_maps, params)
      setting == transform_setting(components.setting, rules, params)
      colorsOut == transform_colors(components.colors, rules, params)
      effects == transform_effects(category, components, params)
      typography == IF category \in TYPOGRAPHY_CATEGORIES
                    THEN transform_typography(components.subject, category, params)
                    ELSE None
      raised == FirstRaise(<<subject, action, setting, colorsOut, effects, typography>>)
  IN IF raised # None THEN [raised |-> raised]
     ELSE [subject |-> subject,
           action |-> action,
           setting |-> setting,
           colors |-> colorsOut,
           effects |-> effects,
           style_markers |-> rules.mandatory_markers,
           typography |-> typography]

(***************************************************************************)
(* Values whose Python type is only known at run time (section values of a *)
(* skeleton): a str, a list of str, or None.                               *)
(***************************************************************************)

PyStr(x) == [kind |-> "str", str |-> x, items |-> <<>>]

PyList(l) == [kind |-> "list", str |-> "", items |-> l]

PyNone == [kind |-> "none", str |-> "", items |-> <<>>]

\* A transform fragment, which is a str or None.
PyOpt(x) == IF x = None THEN PyNone ELSE PyStr(x)

\* bool(v)
PyTruthy(v) ==
  CASE v.kind = "str" -> v.str # ""
    [] v.kind = "list" -> v.items # <<>>
    [] v.kind = "none" -> FALSE

\* repr of a list of str: ['a', 'b']
ListRepr(l) == "[" \o Join(", ", [i \in 1..Len(l) |-> "'" \o l[i] \o "'"]) \o "]"

\* str(v)
PyStrOf(v) ==
  CASE v.kind = "str" -> v.str
    [] v.kind = "list" -> ListRepr(v.items)
    [] v.kind = "none" -> "None"

\* A dict whose iteration order is observable: the keys in insertion order
\* and the value of each key.
EmptyOrdered == [order |-> <<>>, value |-> <<>>]

Keys(d) == {d.order[i] : i \in 1..Len(d.order)}

\* d[k] = v
DictSet(d, k, v) ==
  IF k \in Keys(d)
  THEN [order |-> d.order, value |-> [d.value EXCEPT ![k] = v]]
  ELSE [order |-> Append(d.order, k),
        value |-> [x \in Keys(d) \cup {k} |-> IF x = k THEN v ELSE d.value[x]]]

(***************************************************************************)
(* tools/utils.py: order_by_importance, generate_negative_prompt           *)
(***************************************************************************)

RECURSIVE EmphasisPass(_, _, _)
\* for key in emphasis_order: if key in components and components[key]: ...
EmphasisPass(ordered, components, emphasis_order) ==
  IF emphasis_order = <<>> THEN ordered
  ELSE LET key == Head(emphasis_order)
           next == IF key \in Keys(components) /\ PyTruthy(components.value[key])
                   THEN DictSet(ordered, key, components.value[key])
                   ELSE ordered
       IN EmphasisPass(next, components, Tail(emphasis_order))

RECURSIVE RemainingPass(_, _, _)
\* for key, value in components.items(): if key not in ordered and value: ...
RemainingPass(ordered, components, keys) ==
  IF keys = <<>> THEN ordered
  ELSE LET key == Head(keys)
           next == IF key \notin Keys(ordered) /\ PyTruthy(components.value[key])
                   THEN DictSet(ordered, key, components.value[key])
                   ELSE ordered
       IN RemainingPass(next, components, Tail(keys))

\* Variant: the emphasis order is not followed; insertion order only.
order_by_importance_insertion(components, semantic_weights, emphasis_order) ==
  RemainingPass(EmptyOrdered, components, components.order)

order_by_importance(components, semantic_weights, emphasis_order) ==
  RemainingPass(EmphasisPass(EmptyOrdered, components, emphasis_order),
                components, components.order)

universal ==
  <<"blurry", "low quality", "distorted", "deformed", "watermark",
    "text overlay", "signature", "cropped", "out of frame">>

generate_negative_prompt(category, categories) ==
  LET category_negatives ==
        IF category \in DOMAIN categories
        THEN Get(categories[category], "negative_prompts", <<>>) ELSE <<>>
  IN Join(", ", universal \o category_negatives)

(***************************************************************************)
(* server.py: OlogLoader accessors and module initialisation               *)
(***************************************************************************)

\* A cache attribute of the loader: None after __init__, a dict once set.
NoCache == [loaded |-> FALSE, value |-> EmptyDict]

CacheOf(v) == [loaded |-> TRUE, value |-> v]

\* "if self.x_cache:" -- None and the empty dict are both falsy.
CacheTruthy(c) == c.loaded /\ DOMAIN c.value # {}

\* OlogLoader.__init__
NewLoader ==
  [categories_cache |-> NoCache, transformation_maps_cache |-> NoCache,
   templates_cache |-> NoCache]

\* Each accessor yields the value it returns and the loader it leaves behind.
get_categories(loader) ==
  IF CacheTruthy(loader.categories_cache)
  THEN [ret |-> loader.categories_cache.value, loader |-> loader]
  ELSE [ret |-> CategoriesValue,
        loader |-> [loader EXCEPT !.categories_cache = CacheOf(CategoriesValue)]]

get_transformation_maps(loader) ==
  IF CacheTruthy(loader.transformation_maps_cache)
  THEN [ret |-> loader.transformation_maps_cache.value, loader |-> loader]
  ELSE [ret |-> TransformationMapsValue,
        loader |-> [loader EXCEPT !.transformation_maps_cache =
                                     CacheOf(TransformationMapsValue)]]

get_templates(loader) ==
  IF CacheTruthy(loader.templates_cache)
  THEN [ret |-> loader.templates_cache.value, loader |-> loader]
  ELSE [ret |-> templates,
        loader |-> [loader EXCEPT !.templates_cache = CacheOf(template_map)]]

\* Module initialisation (server.py lines 403-407): the three accessors are
\* called once each, in this order, and their results become the globals.
ModuleInit ==
  LET r1 == get_categories(NewLoader)
      r2 == get_transformation_maps(r1.loader)
      r3 == get_templates(r2.loader)
  IN [OLOG_LOADER |-> r3.loader, CATEGORIES |-> r1.ret,
      TRANSFORMATION_MAPS |-> r2.ret, TEMPLATES |-> r3.ret]

(***************************************************************************)
(* server.py: the tools, as functions of their arguments and the globals   *)
(***************************************************************************)

NoValue == EmptyDict

\* A tool call that returned v.
Ok(v) == [status |-> "ok", message |-> "", value |-> v]

\* A tool call that raised exception exc with message msg.
Raised(exc, msg) == [status |-> exc, message |-> msg, value |-> NoValue]

\* The exceptions the transform functions let escape and their
\* str(exception); the KeyError is that of action_rules['low_energy']
\* (transformer.py line 85), the only key looked up without a test.
ExcOf(r) ==
  CASE r = Raise("AttributeError") -> "AttributeError"
    [] r = Raise("TypeError") -> "TypeError"
    [] r = Raise("KeyError") -> "KeyError"
    [] r = Raise("ValueError") -> "ValueError"

ExcMessage(e) ==
  CASE e = "AttributeError" -> "'NoneType' object has no attribute 'upper'"
    [] e = "TypeError" -> "sequence item 1: expected str instance, NoneType found"
    [] e = "KeyError" -> "'low_energy'"
    [] OTHER -> ""

\* components['semantic_weights'] = calculate_semantic_weights(components)
WithWeights(c) ==
  [subject |-> c.subject, action |-> c.action, setting |-> c.setting,
   objects |-> c.objects, colors |-> c.colors, mood |-> c.mood,
   semantic_weights |-> calculate_semantic_weights(c)]

parse_prompt(user_prompt, maps) ==
  WithWeights(parse_prompt_components(user_prompt, maps))

apply_transformations(parsed_components, category, style_params, cats, maps) ==
  IF category \notin DOMAIN cats
  THEN Raised("ValueError", "Unknown category: " \o category)
  ELSE LET transformed ==
             apply_category_transformation(parsed_components, cats[category],
                                           maps, style_params)
       IN IF "raised" \in DOMAIN transformed
          THEN Raised(ExcOf(transformed.raised), ExcMessage(ExcOf(transformed.raised)))
          ELSE Ok(transformed)

\* The transformed components as the dict that build_prompt_skeleton receives.
TransformedDict(t) ==
  [order |-> TRANSFORMED_KEYS,
   value |-> [subject |-> PyStr(t.subject), action |-> PyStr(t.action),
              setting |-> PyStr(t.setting), colors |-> PyStr(t.colors),
              effects |-> PyStr(t.effects),
              style_markers |-> PyList(t.style_markers),
              typography |-> PyOpt(t.typography)]]

\* The emphasis multiplier of one weight, in hundredths (1.3 is 130).
EmphasisOf(weight) ==
  IF weight > 60 THEN 130
  ELSE IF weight > 40 THEN 115
  ELSE IF weight > 20 THEN 100
  ELSE 85

RECURSIVE SumLen(_, _)
\* sum(len(str(v)) for v in sections.values())
SumLen(sections, keys) ==
  IF keys = <<>> THEN 0
  ELSE Len(PyStrOf(sections.value[Head(keys)])) + SumLen(sections, Tail(keys))

EstimateTokens(sections) == SumLen(sections, sections.order) \div 4

build_prompt_skeleton(transformed_components, category, semantic_weights, tmpls, cats) ==
  IF category \notin DOMAIN tmpls
  THEN Raised("KeyError", "'" \o category \o "'")
  ELSE LET template == tmpls[category]
           ordered_sections ==
             order_by_importance(transformed_components, semantic_weights,
                                 template.emphasis_order)
           emphasis == [c \in DOMAIN semantic_weights |->
                          EmphasisOf(semantic_weights[c])]
       IN Ok([sections |-> ordered_sections,
              emphasis |-> emphasis,
              template |-> template,
              negative_prompt |-> generate_negative_prompt(category, cats),
              metadata |-> [category |-> category,
                            estimated_tokens |-> EstimateTokens(ordered_sections),
                            ready_for_synthesis |-> TRUE]])

\* metadata with key k set to v (the key is added when missing).
MetaSet(m, k, v) ==
  [x \in DOMAIN m \cup {k} |-> IF x = k THEN v ELSE m[x]]

\* Variant: the membership test is left out; the assignment adds the key.
refine_component_unchecked(skeleton, component_name, new_value) ==
  LET sections == DictSet(skeleton.sections, component_name, PyStr(new_value))
      history == Get(skeleton.metadata, "user_modifications", <<>>)
      m1 == MetaSet(skeleton.metadata, "user_modifications",
                    Append(history, component_name))
      m2 == MetaSet(m1, "estimated_tokens", EstimateTokens(sections))
  IN Ok([skeleton EXCEPT !.sections = sections, !.metadata = m2])

\* Variant: the history is overwritten with the last name, not appended to.
refine_component_overwrite(skeleton, component_name, new_value) ==
  IF component_name \notin Keys(skeleton.sections)
  THEN [status |-> "ValueError",
        message |-> "Unknown component: " \o component_name \o ". Available: "
                    \o ListRepr(skeleton.sections.order),
        value |-> skeleton]
  ELSE LET sections == DictSet(skeleton.sections, component_name, PyStr(new_value))
           m1 == MetaSet(skeleton.metadata, "user_modifications",
                         <<component_name>>)
           m2 == MetaSet(m1, "estimated_tokens", EstimateTokens(sections))
       IN Ok([skeleton EXCEPT !.sections = sections, !.metadata = m2])

\* Variant: the key is deleted and set again, which moves it to the end of
\* the sections.
refine_component_reinsert(skeleton, component_name, new_value) ==
  IF component_name \notin Keys(skeleton.sections)
  THEN [status |-> "ValueError",
        message |-> "Unknown component: " \o component_name \o ". Available: "
                    \o ListRepr(skeleton.sections.order),
        value |-> skeleton]
  ELSE LET old == skeleton.sections
           sections ==
             [order |-> Append(SelectSeq(old.order,
                                         LAMBDA k : k # component_name),
                               component_name),
              value |-> [old.value EXCEPT ![component_name] = PyStr(new_value)]]
           history == Get(skeleton.metadata, "user_modifications", <<>>)
           m1 == MetaSet(skeleton.metadata, "user_modifications",
                         Append(history, component_name))
           m2 == MetaSet(m1, "estimated_tokens", EstimateTokens(sections))
       IN Ok([skeleton EXCEPT !.sections = sections, !.metadata = m2])

\* refine_component mutates its argument; the result's value is the skeleton
\* object after the call, whether or not the call raised.
refine_component(skeleton, component_name, new_value) ==
  IF component_name \notin Keys(skeleton.sections)
  THEN [status |-> "ValueError",
        message |-> "Unknown component: " \o component_name \o ". Available: "
                    \o ListRepr(skeleton.sections.order),
        value |-> skeleton]
  ELSE LET sections == DictSet(skeleton.sections, component_name, PyStr(new_value))
           history == Get(skeleton.metadata, "user_modifications", <<>>)
           m1 == MetaSet(skeleton.metadata, "user_modifications",
                         Append(history, component_name))
           m2 == MetaSet(m1, "estimated_tokens", EstimateTokens(sections))
       IN Ok([skeleton EXCEPT !.sections = sections, !.metadata = m2])

\* Variant: the section's old value is updated in place
\* (sections[component_name][:] = [new_value]); when that value is the list
\* object of the catalog, the catalog's list changes with it.
CatalogAfterRefine_inplace(cats, skeleton, component_name, new_value) ==
  LET category == skeleton.metadata.category
  IN IF /\ component_name \in Keys(skeleton.sections)
        /\ skeleton.sections.value[component_name].kind = "list"
        /\ category \in DOMAIN cats
        /\ skeleton.sections.value[component_name].items
             = cats[category].mandatory_markers
     THEN [cats EXCEPT ![category].mandatory_markers = <<new_value>>]
     ELSE cats

\* Variant: the new value is appended to the section's old value in place
\* (sections[component_name].append(new_value)) when that value is a list.
CatalogAfterRefine_append(cats, skeleton, component_name, new_value) ==
  LET category == skeleton.metadata.category
  IN IF /\ component_name \in Keys(skeleton.sections)
        /\ skeleton.sections.value[component_name].kind = "list"
        /\ category \in DOMAIN cats
        /\ skeleton.sections.value[component_name].items
             = cats[category].mandatory_markers
     THEN [cats EXCEPT ![category].mandatory_markers = Append(@, new_value)]
     ELSE cats

\* The catalog after refine_component(skeleton, component_name, new_value).
\* The style_markers section of a skeleton starts as the very list object
\* of the catalog (rules.get('mandatory_markers', []) is passed on by
\* reference through apply_category_transformation and order_by_importance).
\* The item assignment of line 587 binds the key of the sections dict to
\* new_value and leaves the object bound before untouched.
CatalogAfterRefine(cats, skeleton, component_name, new_value) == cats

param_sets ==
  <<[name |-> "Subtle", energy_level |-> 50, color_saturation |-> "pastel",
     composition_density |-> 40],
    [name |-> "Balanced", energy_level |-> 75, color_saturation |-> "bright",
     composition_density |-> 70],
    [name |-> "Intense", energy_level |-> 100, color_saturation |-> "neon",
     composition_density |-> 100],
    [name |-> "Vintage", energy_level |-> 60, color_saturation |-> "muted",
     composition_density |-> 50, era |-> "1970s"],
    [name |-> "Dramatic", energy_level |-> 90, color_saturation |-> "bold",
     composition_density |-> 80]>>

RECURSIVE VariantLoop(_, _, _, _, _, _, _, _)
RECURSIVE VariantTransformed(_, _, _, _, _, _, _, _, _)
RECURSIVE VariantAssembled(_, _, _, _, _, _, _, _, _)
\* The for loop of generate_variants from index i on; variants is the list
\* built so far.  The first exception ends the call.
VariantLoop(parsed_components, category, sets, i, variants, cats, maps, tmpls) ==
  IF i > Len(sets) THEN Ok(variants)
  ELSE VariantTransformed(parsed_components, category, sets, i, variants, cats,
         maps, tmpls,
         apply_transformations(parsed_components, category, sets[i], cats, maps))

\* The loop body once apply_transformations has ended with t.
VariantTransformed(parsed_components, category, sets, i, variants, cats, maps, tmpls, t) ==
  IF t.status # "ok" THEN t
  ELSE VariantAssembled(parsed_components, category, sets, i, variants, cats,
         maps, tmpls,
         build_prompt_skeleton(TransformedDict(t.value), category,
                               parsed_components.semantic_weights, tmpls, cats))

\* The loop body once build_prompt_skeleton has ended with sk.
VariantAssembled(parsed_components, category, sets, i, variants, cats, maps, tmpls, sk) ==
  IF sk.status # "ok" THEN sk
  ELSE VariantLoop(parsed_components, category, sets, i + 1,
         Append(variants,
                [name |-> "Variant " \o IntStr(i) \o " (" \o sets[i].name \o ")",
                 style_params |-> sets[i],
                 skeleton |-> sk.value]),
         cats, maps, tmpls)

\* Variant: the lower limit is off by one and count 0 passes the test.
generate_variants_from0(parsed_components, category, count, cats, maps, tmpls) ==
  IF count < 0 \/ count > 5
  THEN Raised("ValueError", "Count must be between 1 and 5")
  ELSE VariantLoop(parsed_components, category, Take(param_sets, count), 1,
                   <<>>, cats, maps, tmpls)

generate_variants(parsed_components, category, count, cats, maps, tmpls) ==
  IF count < 1 \/ count > 5
  THEN Raised("ValueError", "Count must be between 1 and 5")
  ELSE VariantLoop(parsed_components, category, Take(param_sets, count), 1,
                   <<>>, cats, maps, tmpls)

\* list(CATEGORIES.keys()): the dict was filled in the order of the category
\* instances.
CategoryKeys(cats) == SelectSeq(CategoryInstances, LAMBDA c : c \in DOMAIN cats)

get_available_categories(cats) ==
  Ok([c \in DOMAIN cats |->
        [description |-> cats[c].description,
         visual_dna |-> cats[c].visual_dna,
         ideal_for |-> Get(cats[c], "ideal_subjects", <<>>),
         mood_match |-> Get(cats[c], "compatible_moods", <<>>),
         core_intention |-> Get(cats[c], "core_intention", ""),
         commercial_promise |-> Get(cats[c], "commercial_promise", "")]])

get_category_rules(category, cats) ==
  IF category \notin DOMAIN cats
  THEN Raised("ValueError", "Unknown category: " \o category \o ". Available: "
                            \o ListRepr(CategoryKeys(cats)))
  ELSE Ok(cats[category])

\* repr of a str or None: the text in single quotes, or in double quotes
\* when it holds a single quote and no double quote.
StrRepr(v) ==
  IF v = None THEN "None"
  ELSE IF Contains(v, "'") /\ ~Contains(v, "\"") THEN "\"" \o v \o "\""
  ELSE "'" \o v \o "'"

BoolRepr(b) == IF b THEN "True" ELSE "False"

\* str(parsed_components): the dicts in the key order the parser builds them.
ComponentsRepr(c) ==
  "{'subject': {'type': " \o StrRepr(c.subject.type)
    \o ", 'name': " \o StrRepr(c.subject.name)
    \o ", 'attributes': " \o ListRepr(c.subject.attributes)
    \o ", 'profession': " \o StrRepr(c.subject.profession)
    \o ", 'count': " \o IntStr(c.subject.count)
  \o "}, 'action': {'verb': " \o StrRepr(c.action.verb)
    \o ", 'energy_level': " \o StrRepr(c.action.energy_level)
    \o ", 'object': " \o StrRepr(c.action.object)
    \o ", 'modifier': " \o StrRepr(c.action.modifier)
    \o ", 'progressive': " \o BoolRepr(c.action.progressive)
  \o "}, 'setting': {'type': " \o StrRepr(c.setting.type)
    \o ", 'location': " \o StrRepr(c.setting.location)
    \o ", 'attributes': " \o ListRepr(c.setting.attributes)
    \o ", 'time': " \o StrRepr(c.setting.time)
  \o "}, 'objects': " \o ListRepr(c.objects)
  \o ", 'colors': " \o ListRepr(c.colors)
  \o ", 'mood': {'emotion': " \o StrRepr(c.mood.emotion)
    \o ", 'valence': " \o StrRepr(c.mood.valence)
    \o ", 'intensity': " \o StrRepr(c.mood.intensity)
  \o "}, 'semantic_weights': {"
  \o Join(", ", [i \in 1..Len(WEIGHT_KEYS) |->
                   "'" \o WEIGHT_KEYS[i] \o "': "
                       \o IntStr(c.semantic_weights[WEIGHT_KEYS[i]])])
  \o "}}"

InList(v, l) == \E i \in 1..Len(l) : l[i] = v

\* The number of keywords that occur in prompt_text.
KeywordHits(keywords, prompt_text) ==
  Cardinality({i \in 1..Len(keywords) : Contains(prompt_text, keywords[i])})

\* One pass of the scoring loop: the score and the reasons of a category.
CategoryScore(parsed_components, category, rules, prompt_text) ==
  LET subject_type == parsed_components.subject.type
      mood == parsed_components.mood.emotion
      action_energy == Get(parsed_components.action, "energy_level", "medium")
      subject_hit == InList(subject_type, Get(rules, "ideal_subjects", <<>>))
      mood_hit == InList(mood, Get(rules, "compatible_moods", <<>>))
      high_hit == /\ category \in {"kid_chaos", "mascot_theater"}
                  /\ action_energy \in {"high", "extreme"}
      low_hit == /\ ~high_hit
                 /\ category \in {"health_halo", "premium_disruptor"}
                 /\ action_energy = "low"
  IN [score |-> (IF subject_hit THEN 3 ELSE 0) + (IF mood_hit THEN 2 ELSE 0)
                + (IF high_hit \/ low_hit THEN 2 ELSE 0)
                + KeywordHits(Get(rules, "trigger_keywords", <<>>), prompt_text),
      reasons |->
        (IF subject_hit
         THEN <<"Subject type '" \o Str(subject_type)
                  \o "' is ideal for this category">>
         ELSE <<>>)
        \o (IF mood_hit
            THEN <<"Mood '" \o Str(mood) \o "' aligns with category aesthetic">>
            ELSE <<>>)
        \o (IF high_hit THEN <<"High energy matches dynamic category">>
            ELSE IF low_hit THEN <<"Low energy suits minimalist aesthetic">>
            ELSE <<>>)]

RECURSIVE Ranked_unstable(_, _)
\* A ranking in which the later key stands first among equal scores.
Ranked_unstable(keys, scores) ==
  IF keys = <<>> THEN <<>>
  ELSE LET best == CHOOSE i \in 1..Len(keys) :
                     /\ \A j \in 1..Len(keys) :
                          scores[keys[j]].score <= scores[keys[i]].score
                     /\ \A j \in (i + 1)..Len(keys) :
                          scores[keys[j]].score < scores[keys[i]].score
       IN <<keys[best]>>
            \o Ranked_unstable(SubSeq(keys, 1, best - 1)
                                 \o SubSeq(keys, best + 1, Len(keys)),
                               scores)

RECURSIVE Ranked(_, _)
\* sorted(scores.items(), key=score, reverse=True): the sort is stable, so
\* among equal scores the earlier key stays first.
Ranked(keys, scores) ==
  IF keys = <<>> THEN <<>>
  ELSE LET best == CHOOSE i \in 1..Len(keys) :
                     /\ \A j \in 1..Len(keys) :
                          scores[keys[j]].score <= scores[keys[i]].score
                     /\ \A j \in 1..(i - 1) :
                          scores[keys[j]].score < scores[keys[i]].score
       IN <<keys[best]>>
            \o Ranked(SubSeq(keys, 1, best - 1) \o SubSeq(keys, best + 1, Len(keys)),
                      scores)

suggest_category(parsed_components, cats) ==
  LET prompt_text == Lower(ComponentsRepr(parsed_components))
      scores == [c \in DOMAIN cats |->
                   CategoryScore(parsed_components, c, cats[c], prompt_text)]
      ranked == Ranked(CategoryKeys(cats), scores)
  IN Ok([primary_suggestion |-> ranked[1],
         alternatives |-> SubSeq(ranked, 2, IF Len(ranked) < 3 THEN Len(ranked) ELSE 3),
         scores |-> [c \in DOMAIN cats |-> scores[c].score],
         reasoning |-> IF scores[ranked[1]].reasons # <<>>
                       THEN Join("; ", scores[ranked[1]].reasons)
                       ELSE "General compatibility"])

(***************************************************************************)
(* Inputs                                                                  *)
(***************************************************************************)

\* Longest prompt, in words, built from Vocabulary.
MaxWords == 1

\* Longest modification history a skeleton is refined to.
MaxRefines == 2

\* Largest variant count requested (the smallest is -1).
MaxCountInput == 7

Vocabulary == {"chef", "pizza", "running", "kitchen"}

RECURSIVE WordTexts(_)
\* Every text of at most n vocabulary words separated by single spaces.
WordTexts(n) ==
  IF n = 0 THEN {""}
  ELSE LET shorter == WordTexts(n - 1)
       IN shorter \cup {IF t = "" THEN w ELSE t \o " " \o w :
                          t \in shorter, w \in Vocabulary}

\* Prompts of the repository's tests and of the documented scenarios.
ScenarioTexts ==
  {"a happy chef cooking soup", "a person running fast", "a cheerful doctor",
   "hands holding vegetables", "a bird", "a happy cat",
   "red cat", "red blue cat", "red blue green pizza",
   "red blue green yellow chef sitting",
   "two tired Cats sitting near the beach at night",
   "a Chef cooking an apple in the kitchen"}

\* Prompts with verbs of several tiers, the slower verb first in the text,
\* and with two verbs of one tier, the later of the list first in the text.
VerbTexts ==
  {"sitting then walking then running", "resting after dancing",
   "reading while standing"}

Texts == WordTexts(MaxWords) \cup ScenarioTexts \cup VerbTexts

CategoryNames == {CategoryInstances[i] : i \in 1..Len(CategoryInstances)}

\* Category arguments: the seven names and one that is not in the catalog.
CategoryInputs == CategoryNames \cup {"pop_art"}

\* style_params arguments: none, two presets of generate_variants, and one
\* bundle with an energy multiplier above 1.0.
StyleParamInputs ==
  {EmptyDict, param_sets[1], param_sets[4],
   [energy_level |-> 150, era |-> "80s"]}

\* A semantic_weights argument besides the parsed ones: each component at one
\* of the tier boundaries.
BoundaryWeights ==
  [subject |-> 60, action |-> 61, setting |-> 40, objects |-> 41,
   colors |-> 20, mood |-> 21]

CountInputs == (0 - 1)..MaxCountInput

\* Section values a client holds in a skeleton, and replacement texts.
NewValues == {"", "a chef", "bright red cat"}

ComponentNameInputs == {"subject", "colors", "style_markers", "mood"}

\* The skeleton dict laid out as build_prompt_skeleton lays it out
\* (server.py lines 559-571) for the given sections.
SkeletonOf(sections, category, weights) ==
  [sections |-> sections,
   emphasis |-> [c \in DOMAIN weights |-> EmphasisOf(weights[c])],
   template |-> template_map.mascot_theater,
   negative_prompt |-> generate_negative_prompt(category, CategoriesValue),
   metadata |-> [category |-> category,
                 estimated_tokens |-> EstimateTokens(sections),
                 ready_for_synthesis |-> TRUE]]

SectionsOf(order) ==
  [order |-> order,
   value |-> [k \in {order[i] : i \in 1..Len(order)} |->
                CASE k = "subject" -> PyStr("cartoon mascot, chef")
                  [] k = "colors" -> PyStr("natural balanced colors, medium saturation")
                  [] k = "style_markers" ->
                       PyList(_extract_mandatory_markers("mascot_theater"))
                  [] OTHER -> PyStr("in neutral pose")]]

\* Skeletons a client passes to refine_component.
ClientSkeletons ==
  {SkeletonOf(SectionsOf(order), "mascot_theater", w) :
     order \in {<<"subject">>, <<"subject", "colors">>,
                <<"colors", "subject", "style_markers">>,
                <<"subject", "action", "style_markers">>},
     w \in {calculate_semantic_weights(
              parse_prompt_components(t, TransformationMapsValue)) :
              t \in {"", "a happy chef cooking soup"}}}

(***************************************************************************)
(* State                                                                   *)
(***************************************************************************)

VARIABLES
  OLOG_LOADER,          \* the loader object and its three caches
  CATEGORIES,           \* module global: the rule catalog
  TRANSFORMATION_MAPS,  \* module global: the lookup tables
  TEMPLATES,            \* module global: the template table
  clientComponents,     \* what the last parse_prompt call returned
  clientSkeleton,       \* the skeleton object the client holds
  lastCall,             \* the last tool call: tool, arguments, outcome
  runs                  \* the pipeline runs of two concurrent requests

vars == <<OLOG_LOADER, CATEGORIES, TRANSFORMATION_MAPS, TEMPLATES,
          clientComponents, clientSkeleton, lastCall, runs>>

globals == <<OLOG_LOADER, CATEGORIES, TRANSFORMATION_MAPS, TEMPLATES>>

NoComponents == EmptyDict

NoSkeleton == EmptyDict

HasComponents == "subject" \in DOMAIN clientComponents

HasSkeleton == "sections" \in DOMAIN clientSkeleton

\* The record of a tool call: its scalar arguments and its outcome.  The
\* components returned by parse_prompt are kept in clientComponents, the
\* skeleton returned by refine_component in clientSkeleton.
Call(tool, args, result) ==
  [tool |-> tool, args |-> args, status |-> result.status,
   message |-> result.message, value |-> result.value]

NoCall == Call("", EmptyDict, Ok(NoValue))

\* No concurrent requests.
NoRuns == <<>>

\* The tools are functions of their arguments and of the globals, and no
\* code assigns the globals after module initialisation: GlobalsLoaded holds
\* in every state.  The results of parse_prompt, apply_transformations and
\* generate_variants for the inputs above and the loaded globals are
\* tabulated once, and a call of one of these tools reads its table.
Lookup(table, in) == (CHOOSE r \in table : r.in = in).out

GlobalsLoaded ==
  /\ CATEGORIES = ModuleInit.CATEGORIES
  /\ TRANSFORMATION_MAPS = ModuleInit.TRANSFORMATION_MAPS
  /\ TEMPLATES = ModuleInit.TEMPLATES

ParseTable ==
  {[in |-> t, out |-> parse_prompt(t, ModuleInit.TRANSFORMATION_MAPS)] :
     t \in Texts}

ParsedComponents == {r.out : r \in ParseTable}

TransformTable ==
  {[in |-> c,
    out |-> {[in |-> <<category, style_params>>,
              out |-> apply_transformations(c, category, style_params,
                                            ModuleInit.CATEGORIES,
                                            ModuleInit.TRANSFORMATION_MAPS)] :
               category \in CategoryInputs, style_params \in StyleParamInputs}] :
     c \in ParsedComponents}

VariantsTable ==
  {[in |-> c,
    out |-> {[in |-> <<category, count>>,
              out |-> generate_variants(c, category, count,
                                        ModuleInit.CATEGORIES,
                                        ModuleInit.TRANSFORMATION_MAPS,
                                        ModuleInit.TEMPLATES)] :
               category \in CategoryInputs, count \in CountInputs}] :
     c \in ParsedComponents}

SuggestTable ==
  {[in |-> c, out |-> suggest_category(c, ModuleInit.CATEGORIES)] :
     c \in ParsedComponents}

InitGlobals ==
  /\ OLOG_LOADER = ModuleInit.OLOG_LOADER
  /\ CATEGORIES = ModuleInit.CATEGORIES
  /\ TRANSFORMATION_MAPS = ModuleInit.TRANSFORMATION_MAPS
  /\ TEMPLATES = ModuleInit.TEMPLATES

Init ==
  /\ InitGlobals
  /\ clientComponents = NoComponents
  /\ clientSkeleton = NoSkeleton
  /\ lastCall = NoCall
  /\ runs = NoRuns

(***************************************************************************)
(* Tool calls                                                              *)
(***************************************************************************)

\* A client that has begun to edit its skeleton goes on editing it: the other
\* tools are called before the first refine_component call.
Serving == lastCall.tool # "refine_component"

ParsePrompt ==
  /\ Serving
  /\ \E user_prompt \in Texts :
       LET result == Lookup(ParseTable, user_prompt)
       IN /\ clientComponents' = result
          /\ lastCall' = Call("parse_prompt", [user_prompt |-> user_prompt],
                               Ok(NoValue))
  /\ UNCHANGED <<runs, globals, clientSkeleton>>

ApplyTransformations ==
  /\ Serving
  /\ HasComponents
  /\ \E category \in CategoryInputs, style_params \in StyleParamInputs :
       lastCall' = Call("apply_transformations",
                        [category |-> category, style_params |-> style_params],
                        Lookup(Lookup(TransformTable, clientComponents),
                               <<category, style_params>>))
  /\ UNCHANGED <<runs, globals, clientComponents, clientSkeleton>>

\* The client passes on the components it got from apply_transformations.
BuildPromptSkeleton ==
  /\ Serving
  /\ HasComponents
  /\ lastCall.tool = "apply_transformations"
  /\ lastCall.status = "ok"
  /\ \E category \in CategoryInputs,
        semantic_weights \in {clientComponents.semantic_weights,
                              BoundaryWeights} :
       LET result == build_prompt_skeleton(TransformedDict(lastCall.value),
                                           category, semantic_weights,
                                           TEMPLATES, CATEGORIES)
       IN /\ lastCall' = Call("build_prompt_skeleton",
                              [category |-> category,
                               semantic_weights |-> semantic_weights],
                              result)
          /\ clientSkeleton' = IF result.status = "ok" THEN result.value
                             ELSE clientSkeleton
  /\ UNCHANGED <<runs, globals, clientComponents>>

RefineComponent ==
  /\ HasSkeleton
  /\ Len(Get(clientSkeleton.metadata, "user_modifications", <<>>)) < MaxRefines
  /\ \E component_name \in ComponentNameInputs, new_value \in NewValues :
       LET result == refine_component(clientSkeleton, component_name,
                                      new_value)
       IN /\ lastCall' = Call("refine_component",
                              [component_name |-> component_name,
                               new_value |-> new_value],
                              [result EXCEPT !.value = NoValue])
          /\ clientSkeleton' = result.value
          /\ CATEGORIES' = CatalogAfterRefine(CATEGORIES, clientSkeleton,
                                              component_name, new_value)
  /\ UNCHANGED <<runs, OLOG_LOADER, TRANSFORMATION_MAPS, TEMPLATES, clientComponents>>

GenerateVariants ==
  /\ Serving
  /\ HasComponents
  /\ \E category \in CategoryInputs, count \in CountInputs :
       lastCall' = Call("generate_variants",
                        [category |-> category, count |-> count],
                        Lookup(Lookup(VariantsTable, clientComponents),
                               <<category, count>>))
  /\ UNCHANGED <<runs, globals, clientComponents, clientSkeleton>>

GetAvailableCategories ==
  /\ Serving
  /\ lastCall' = Call("get_available_categories", EmptyDict,
                      get_available_categories(CATEGORIES))
  /\ UNCHANGED <<runs, globals, clientComponents, clientSkeleton>>

SuggestCategory ==
  /\ Serving
  /\ HasComponents
  /\ lastCall' = Call("suggest_category", EmptyDict,
                      Lookup(SuggestTable, clientComponents))
  /\ UNCHANGED <<runs, globals, clientComponents, clientSkeleton>>

GetCategoryRules ==
  /\ Serving
  /\ \E category \in CategoryInputs :
       lastCall' = Call("get_category_rules", [category |-> category],
                        get_category_rules(category, CATEGORIES))
  /\ UNCHANGED <<runs, globals, clientComponents, clientSkeleton>>

\* A call of a loader accessor after start-up.
GetCategories ==
  LET r == get_categories(OLOG_LOADER)
  IN /\ Serving
     /\ OLOG_LOADER' = r.loader
     /\ lastCall' = Call("get_categories", EmptyDict, Ok(r.ret))
     /\ UNCHANGED <<runs, CATEGORIES, TRANSFORMATION_MAPS, TEMPLATES,
                    clientComponents, clientSkeleton>>

GetTransformationMaps ==
  LET r == get_transformation_maps(OLOG_LOADER)
  IN /\ Serving
     /\ OLOG_LOADER' = r.loader
     /\ lastCall' = Call("get_transformation_maps", EmptyDict, Ok(r.ret))
     /\ UNCHANGED <<runs, CATEGORIES, TRANSFORMATION_MAPS, TEMPLATES,
                    clientComponents, clientSkeleton>>

GetTemplates ==
  LET r == get_templates(OLOG_LOADER)
  IN /\ Serving
     /\ OLOG_LOADER' = r.loader
     /\ lastCall' = Call("get_templates", EmptyDict, Ok(r.ret))
     /\ UNCHANGED <<runs, CATEGORIES, TRANSFORMATION_MAPS, TEMPLATES,
                    clientComponents, clientSkeleton>>

\* The pipeline of one client: parse, transform, assemble, variants.
Next ==
  \/ ParsePrompt
  \/ ApplyTransformations
  \/ BuildPromptSkeleton
  \/ GenerateVariants

Spec == Init /\ [][Next]_vars

\* The whole server: every tool and every loader accessor.  The client
\* holds a skeleton whose style_markers section is the mandatory-marker list
\* of its category; it calls the other tools in any order and then edits the
\* skeleton.
ServerSkeleton ==
  SkeletonOf(SectionsOf(<<"colors", "subject", "style_markers">>),
             "mascot_theater",
             calculate_semantic_weights(
               parse_prompt_components("a happy chef cooking soup",
                                       TransformationMapsValue)))

InitServer ==
  /\ InitGlobals
  /\ clientComponents = NoComponents
  /\ clientSkeleton = ServerSkeleton
  /\ lastCall = NoCall
  /\ runs = NoRuns

NextServer ==
  \/ ParsePrompt
  \/ GetAvailableCategories
  \/ SuggestCategory
  \/ GetCategoryRules
  \/ ApplyTransformations
  \/ BuildPromptSkeleton
  \/ GenerateVariants
  \/ GetCategories
  \/ GetTransformationMaps
  \/ GetTemplates
  \/ RefineComponent

SpecServer == InitServer /\ [][NextServer]_vars

\* A client that holds a skeleton and edits it.
InitRefine ==
  /\ InitGlobals
  /\ clientComponents = NoComponents
  /\ clientSkeleton \in ClientSkeletons
  /\ lastCall = NoCall
  /\ runs = NoRuns

NextRefine == RefineComponent

SpecRefine == InitRefine /\ [][NextRefine]_vars

(***************************************************************************)
(* Two concurrent requests                                                 *)
(***************************************************************************)

\* Two pipeline runs, each for a request of its own, whose tool calls are
\* interleaved in any order.  A run calls apply_transformations, then
\* build_prompt_skeleton, then refine_component on its own skeleton: the one
\* build_prompt_skeleton returned, or else the one the client held.  The
\* runs share the module globals and nothing else.
RunIds == {1, 2}

RunTexts == {"a happy chef cooking soup", "a person running fast"}

RunCategories == {"mascot_theater", "health_halo"}

\* The skeleton a client holds for a category: its style_markers section is
\* the category's mandatory-marker list.
RunSkeleton(category, weights) ==
  SkeletonOf(DictSet(SectionsOf(<<"colors", "subject", "style_markers">>),
                     "style_markers",
                     PyList(_extract_mandatory_markers(category))),
             category, weights)

RequestOf(parsed, category) ==
  [components |-> parsed, category |-> category, style_params |-> EmptyDict,
   skeleton |-> RunSkeleton(category, parsed.semantic_weights)]

RunRequests ==
  {RequestOf(parse_prompt(t, TransformationMapsValue), category) :
     t \in RunTexts, category \in RunCategories}

NewRun(request) ==
  [request |-> request, pc |-> "transform", transformed |-> Ok(NoValue),
   assembled |-> Ok(NoValue), refined |-> NoCall,
   skeleton |-> request.skeleton]

InitTwo ==
  /\ InitGlobals
  /\ clientComponents = NoComponents
  /\ clientSkeleton = NoSkeleton
  /\ lastCall = NoCall
  /\ runs \in [RunIds -> {NewRun(request) : request \in RunRequests}]

RunTransform ==
  \E r \in DOMAIN runs :
    /\ runs[r].pc = "transform"
    /\ LET result == apply_transformations(runs[r].request.components,
                                           runs[r].request.category,
                                           runs[r].request.style_params,
                                           CATEGORIES, TRANSFORMATION_MAPS)
       IN runs' = [runs EXCEPT ![r].transformed = result,
                               ![r].pc = IF result.status = "ok" THEN "assemble"
                                         ELSE "done"]
    /\ UNCHANGED <<globals, clientComponents, clientSkeleton, lastCall>>

RunAssemble ==
  \E r \in DOMAIN runs :
    /\ runs[r].pc = "assemble"
    /\ LET result == build_prompt_skeleton(
                       TransformedDict(runs[r].transformed.value),
                       runs[r].request.category,
                       runs[r].request.components.semantic_weights,
                       TEMPLATES, CATEGORIES)
       IN runs' = [runs EXCEPT ![r].assembled = result,
                               ![r].skeleton = IF result.status = "ok"
                                               THEN result.value ELSE @,
                               ![r].pc = "refine"]
    /\ UNCHANGED <<globals, clientComponents, clientSkeleton, lastCall>>

RunRefine ==
  \E r \in DOMAIN runs :
    /\ runs[r].pc = "refine"
    /\ \E component_name \in ComponentNameInputs, new_value \in NewValues :
         LET result == refine_component(runs[r].skeleton, component_name,
                                        new_value)
         IN /\ runs' = [runs EXCEPT
                          ![r].refined =
                            Call("refine_component",
                                 [component_name |-> component_name,
                                  new_value |-> new_value],
                                 [result EXCEPT !.value = NoValue]),
                          ![r].skeleton = result.value,
                          ![r].pc = "done"]
            /\ CATEGORIES' = CatalogAfterRefine(CATEGORIES, runs[r].skeleton,
                                                component_name, new_value)
    /\ UNCHANGED <<OLOG_LOADER, TRANSFORMATION_MAPS, TEMPLATES,
                   clientComponents, clientSkeleton, lastCall>>

NextTwo ==
  \/ RunTransform
  \/ RunAssemble
  \/ RunRefine

SpecTwo == InitTwo /\ [][NextTwo]_vars

(***************************************************************************)
(* order_by_importance called on its own                                   *)
(***************************************************************************)

\* emphasis_order arguments: the order of the mascot_theater template, an
\* order that names two components only, one that names a key twice and a
\* key the components do not have, and the empty order.
EmphasisOrders ==
  {template_map.mascot_theater.emphasis_order,
   <<"colors", "subject">>,
   <<"typography", "mood", "effects", "typography">>,
   <<>>}

\* utils.order_by_importance applied to the components that
\* apply_transformations returned.
OrderByImportance ==
  /\ lastCall.tool = "apply_transformations"
  /\ lastCall.status = "ok"
  /\ \E emphasis_order \in EmphasisOrders :
       lastCall' = Call("order_by_importance",
                        [components |-> TransformedDict(lastCall.value),
                         emphasis_order |-> emphasis_order],
                        Ok(order_by_importance(TransformedDict(lastCall.value),
                                               clientComponents.semantic_weights,
                                               emphasis_order)))
  /\ UNCHANGED <<runs, globals, clientComponents, clientSkeleton>>

NextOrder ==
  \/ ParsePrompt
  \/ ApplyTransformations
  \/ OrderByImportance

SpecOrder == Init /\ [][NextOrder]_vars

(***************************************************************************)
(* Properties                                                              *)
(***************************************************************************)

\* The last call was tool t.
LastTool(t) == lastCall.tool = t

\* The named category is one of the seven of the catalog.
KnownCategory == lastCall.args.category \in CategoryNames

RECURSIVE SumSeq(_, _)
\* The sum of f[k] over the keys of the sequence ks.
SumSeq(f, ks) == IF ks = <<>> THEN 0 ELSE f[Head(ks)] + SumSeq(f, Tail(ks))

\* C1: apply_category_transformation returns a TransformedComponents record
\* without raising for every parsed ComponentSet and each of the seven
\* categories, a ComponentSet without a subject included.
C1_TransformNeverRaises ==
  (LastTool("apply_transformations") /\ KnownCategory)
    => /\ lastCall.status = "ok"
       /\ DOMAIN lastCall.value =
            {"subject", "action", "setting", "colors", "effects",
             "style_markers", "typography"}

\* C2: for each of the seven categories build_prompt_skeleton returns a
\* skeleton with sections, emphasis, template, negative prompt and metadata,
\* and the template table loaded at start-up has an emphasis order for the
\* category.
C2_AssembleReturnsSkeleton ==
  (LastTool("build_prompt_skeleton") /\ KnownCategory)
    => /\ lastCall.args.category \in DOMAIN TEMPLATES
       /\ "emphasis_order" \in DOMAIN TEMPLATES[lastCall.args.category]
       /\ lastCall.status = "ok"
       /\ DOMAIN lastCall.value =
            {"sections", "emphasis", "template", "negative_prompt", "metadata"}
       /\ lastCall.value.metadata.category = lastCall.args.category
       /\ "estimated_tokens" \in DOMAIN lastCall.value.metadata

\* No alternative of any subject pattern occurs in t as a whole word.
NoSubjectPattern(t) ==
  \A k \in 1..Len(SUBJECT_TYPES) :
    SearchWord(t, subjects[SUBJECT_TYPES[k]]) = NoMatch

\* No verb of any energy tier occurs in t.
NoActionPattern(t) ==
  \A k \in 1..Len(ENERGY_KEYS) :
    \A j \in 1..Len(actions[ENERGY_KEYS[k]]) :
      ~Contains(Lower(t), actions[ENERGY_KEYS[k]][j])

\* No alternative of any setting pattern occurs in t as a whole word.
NoSettingPattern(t) ==
  \A k \in 1..Len(SETTING_TYPES) :
    SearchWord(t, settings[SETTING_TYPES[k]]) = NoMatch

\* The prop pattern matches at no position of t.
NoPropPattern(t) == \A i \in 1..Len(t) : PropAt(t, i) = NoMatch

\* No colour word occurs in t.
NoColorPattern(t) ==
  \A k \in 1..Len(colors) : ~Contains(Lower(t), colors[k])

\* No emotion word occurs in t.
NoMoodPattern(t) ==
  \A k \in 1..Len(VALENCES) :
    \A j \in 1..Len(emotions[VALENCES[k]]) :
      ~Contains(Lower(t), emotions[VALENCES[k]][j])

\* C3: parse_prompt_components returns, for every text, a record with the six
\* fields subject, action, setting, objects, colors and mood, and a field
\* whose patterns match nowhere in the text holds its default.
C3_ParseTotalWithDefaults ==
  LastTool("parse_prompt")
    => LET t == lastCall.args.user_prompt
           c == clientComponents
       IN /\ lastCall.status = "ok"
          /\ {"subject", "action", "setting", "objects", "colors", "mood"}
               \subseteq DOMAIN c
          /\ NoSubjectPattern(t)
               => /\ c.subject.type = "abstract"
                  /\ c.subject.name = None
                  /\ c.subject.count = 0
          /\ NoActionPattern(t)
               => /\ c.action.verb = None
                  /\ c.action.energy_level = "low"
                  /\ c.action.progressive = FALSE
          /\ NoSettingPattern(t)
               => /\ c.setting.type = "abstract"
                  /\ c.setting.location = None
          /\ NoPropPattern(t) => c.objects = <<>>
          /\ NoColorPattern(t) => c.colors = <<>>
          /\ NoMoodPattern(t)
               => /\ c.mood.emotion = None
                  /\ c.mood.valence = "neutral"
                  /\ c.mood.intensity = "medium"

\* The empty text, in which no pattern of any field matches, was parsed.
C3_Witness ==
  /\ LastTool("parse_prompt")
  /\ lastCall.args.user_prompt = ""
  /\ NoSubjectPattern("") /\ NoActionPattern("") /\ NoSettingPattern("")
  /\ NoPropPattern("") /\ NoColorPattern("") /\ NoMoodPattern("")
  /\ clientComponents.subject.count = 0
  /\ clientComponents.objects = <<>>

\* The weights of the parsed components and their raw scores.
Weights == clientComponents.semantic_weights

RawScores == RawWeights(clientComponents)

RawTotal == SumSeq(RawScores, WEIGHT_KEYS)

WeightSum == SumSeq(Weights, WEIGHT_KEYS)

\* C4 as stated: the weights are non-negative integers that sum to exactly 100
\* when some raw score is positive and are all zero when none is.
C4_SumExactly100 ==
  HasComponents
    => /\ \A k \in DOMAIN Weights : Weights[k] \in Nat
       /\ RawTotal > 0 => WeightSum = 100
       /\ RawTotal = 0 => \A k \in DOMAIN Weights : Weights[k] = 0

\* C4, amended: the weights are non-negative integers that sum to at least 96
\* and at most 100 when some raw score is positive and are all zero when none
\* is.
C4_SumAtMost100 ==
  HasComponents
    => /\ \A k \in DOMAIN Weights : Weights[k] \in Nat
       /\ RawTotal > 0 => (WeightSum >= 96 /\ WeightSum <= 100)
       /\ RawTotal = 0 => \A k \in DOMAIN Weights : Weights[k] = 0

\* Components with a positive raw total whose weights sum to less than 100.
C4_Witness == HasComponents /\ RawTotal > 0 /\ WeightSum = 99

\* C5: with a positive raw total each weight is floor(100 * raw / total), an
\* integer of 0..100, and the weights sum to at most 100.
C5_WeightIsFloor ==
  (HasComponents /\ RawTotal > 0)
    => /\ DOMAIN Weights = DOMAIN RawScores
       /\ \A k \in DOMAIN Weights :
            /\ Weights[k] \in 0..100
            /\ Weights[k] * RawTotal <= 100 * RawScores[k]
            /\ 100 * RawScores[k] < (Weights[k] + 1) * RawTotal
       /\ WeightSum <= 100

\* Some weight is the truncation of a quotient whose fraction is a half or
\* more, which rounding would have taken up.
C5_Witness ==
  /\ HasComponents
  /\ RawTotal > 0
  /\ \E k \in DOMAIN Weights :
       2 * (100 * RawScores[k] - Weights[k] * RawTotal) >= RawTotal

\* C6: in the emphasis mapping of the skeleton that build_prompt_skeleton
\* returns, weight 60 gets multiplier 1.0, 61 gets 1.3, 40 gets 1.0, 41 gets
\* 1.15, 20 gets 0.85 and 21 gets 1.0 (multipliers in hundredths).
C6_EmphasisBoundaries ==
  (/\ LastTool("build_prompt_skeleton")
   /\ KnownCategory
   /\ lastCall.args.semantic_weights = BoundaryWeights)
    => /\ lastCall.status = "ok"
       /\ lastCall.value.emphasis =
            [subject |-> 100, action |-> 130, setting |-> 100,
             objects |-> 115, colors |-> 85, mood |-> 100]

\* The modification history of a skeleton.
HistoryOf(sk) ==
  IF "user_modifications" \in DOMAIN sk.metadata
  THEN sk.metadata.user_modifications
  ELSE <<>>

\* The step is a call of refine_component with a name that is (known = TRUE)
\* or is not (known = FALSE) a section key of the skeleton before the call.
RefineStep(known) ==
  /\ lastCall'.tool = "refine_component"
  /\ (lastCall'.args.component_name \in Keys(clientSkeleton.sections)) = known

\* C7: refine_component with a name that is not a section key fails with the
\* unknown-component error and leaves the skeleton as it was: sections,
\* emphasis, negative prompt, token estimate and history.
C7_UnknownNameLeavesSkeleton ==
  [][RefineStep(FALSE)
       => /\ lastCall'.status = "ValueError"
          /\ Prefix(lastCall'.message, 19) = "Unknown component: "
          /\ clientSkeleton' = clientSkeleton]_vars

\* A call with the name mood, which no skeleton has as a section, failed.
C7_Witness ==
  /\ LastTool("refine_component")
  /\ lastCall.args.component_name = "mood"
  /\ "mood" \notin Keys(clientSkeleton.sections)
  /\ lastCall.status = "ValueError"

\* C8: refine_component with a name that is a section key sets that section
\* to the supplied string and appends the name to the history; a failed call
\* leaves the history alone, so the history is the names of the successful
\* calls in call order, repeats kept.
C8_KnownNameSetsAndAppends ==
  [][/\ RefineStep(TRUE)
          => /\ lastCall'.status = "ok"
             /\ clientSkeleton'.sections.value[lastCall'.args.component_name]
                  = PyStr(lastCall'.args.new_value)
             /\ HistoryOf(clientSkeleton')
                  = Append(HistoryOf(clientSkeleton),
                           lastCall'.args.component_name)
     /\ RefineStep(FALSE)
          => HistoryOf(clientSkeleton') = HistoryOf(clientSkeleton)]_vars

\* Two successful calls with the same name: the history repeats the name.
C8_Witness ==
  /\ LastTool("refine_component")
  /\ lastCall.status = "ok"
  /\ HistoryOf(clientSkeleton) = <<"subject", "subject">>
  /\ clientSkeleton.sections.value["subject"] = PyStr(lastCall.args.new_value)

RECURSIVE SectionChars(_, _)
\* The characters of the section values of the keys ks, each value as str()
\* prints it.
SectionChars(sections, ks) ==
  IF ks = <<>> THEN 0
  ELSE Len(PyStrOf(sections.value[Head(ks)])) + SectionChars(sections, Tail(ks))

\* The token estimate of skeleton sk is its section characters divided by 4,
\* rounded down.
EstimateCurrent(sk) ==
  LET chars == SectionChars(sk.sections, sk.sections.order)
      est == sk.metadata.estimated_tokens
  IN 4 * est <= chars /\ chars < 4 * est + 4

\* C9: build_prompt_skeleton returns a skeleton whose token estimate is the
\* section characters divided by 4, rounded down, and the estimate of the
\* skeleton the client holds is current after every call.
C9_EstimateNeverStale ==
  /\ (LastTool("build_prompt_skeleton") /\ KnownCategory)
       => (lastCall.status = "ok" /\ EstimateCurrent(lastCall.value))
  /\ HasSkeleton => EstimateCurrent(clientSkeleton)

\* C10: generate_variants fails with the invalid-count error for every count
\* outside 1..5 and returns no variant, whatever the components and the
\* category: the count is tested before any transformation runs.
C10_InvalidCountRejected ==
  (/\ LastTool("generate_variants")
   /\ (lastCall.args.count < 1 \/ lastCall.args.count > 5))
    => /\ lastCall.status = "ValueError"
       /\ lastCall.message = "Count must be between 1 and 5"
       /\ lastCall.value = NoValue

\* Count 0 was refused for components and a category whose transformation
\* raises when it runs.
C10_Witness ==
  /\ LastTool("generate_variants")
  /\ lastCall.args.count = 0
  /\ lastCall.args.category = "mascot_theater"
  /\ clientComponents.subject.name = None
  /\ lastCall.status = "ValueError"

\* ---------------------------------------------------------------------------
\* C11: a generate_variants call for a known category and a count n from 1 to
\* 5 returns exactly n variants; the i-th variant is built from the i-th
\* preset of Subtle, Balanced, Intense, Vintage, Dramatic, is tagged with that
\* preset's name and carries a full skeleton.
PresetNames == <<"Subtle", "Balanced", "Intense", "Vintage", "Dramatic">>

C11_VariantsInPresetOrder ==
  (/\ LastTool("generate_variants")
   /\ KnownCategory
   /\ lastCall.args.count \in 1..5)
    => /\ lastCall.status = "ok"
       /\ Len(lastCall.value) = lastCall.args.count
       /\ \A i \in 1..lastCall.args.count :
            /\ lastCall.value[i].style_params = param_sets[i]
            /\ lastCall.value[i].style_params.name = PresetNames[i]
            /\ lastCall.value[i].name
                 = "Variant " \o IntStr(i) \o " (" \o PresetNames[i] \o ")"
            /\ {"sections", "emphasis", "metadata"}
                 \subseteq DOMAIN lastCall.value[i].skeleton

\* ---------------------------------------------------------------------------
\* C12: the loaded catalog holds exactly the 7 categories mascot_theater,
\* health_halo, nostalgia_revival, premium_disruptor, kid_chaos,
\* transparent_honest and adventure_fantasy, and get_category_rules returns
\* for each of them a record with every required field.
SevenCategories ==
  {"mascot_theater", "health_halo", "nostalgia_revival", "premium_disruptor",
   "kid_chaos", "transparent_honest", "adventure_fantasy"}

RequiredFields ==
  {"description", "visual_dna", "ideal_subjects", "compatible_moods",
   "trigger_keywords", "subject_rules", "action_rules", "setting_rules",
   "color_rules", "mandatory_markers", "negative_prompts", "core_intention",
   "composition_principle", "commercial_promise"}

C12_SevenCategoriesAllFields ==
  /\ DOMAIN CATEGORIES = SevenCategories
  /\ (/\ LastTool("get_category_rules")
      /\ lastCall.args.category \in SevenCategories)
       => /\ lastCall.status = "ok"
          /\ RequiredFields \subseteq DOMAIN lastCall.value
          /\ lastCall.value.name = lastCall.args.category

\* The rules of the last category of the catalog were returned.
C12_Witness ==
  /\ LastTool("get_category_rules")
  /\ lastCall.args.category = "adventure_fantasy"
  /\ lastCall.status = "ok"
  /\ Len(lastCall.value.visual_dna) = 7
  /\ lastCall.value.composition_principle = ""

\* ---------------------------------------------------------------------------
\* C13: a call that fails at the boundary ends in an explicit failure whose
\* message carries the offending value and the valid alternatives: an unknown
\* category given to get_category_rules, apply_transformations,
\* build_prompt_skeleton or generate_variants is named together with the
\* list of the categories, an unknown component given to refine_component
\* together with the section names, and a variant count outside 1..5 together
\* with the range.
CategoryTools ==
  {"get_category_rules", "apply_transformations", "build_prompt_skeleton",
   "generate_variants"}

UnknownCategoryCall ==
  /\ lastCall.tool \in CategoryTools
  /\ lastCall.args.category \notin CategoryNames
  /\ LastTool("generate_variants") => lastCall.args.count \in 1..5

InvalidCountCall ==
  /\ LastTool("generate_variants")
  /\ lastCall.args.count \notin 1..5

UnknownComponentCall ==
  /\ LastTool("refine_component")
  /\ lastCall.status # "ok"

\* str(n) for any integer n
CountStr(n) == IF n < 0 THEN "-" \o IntStr(0 - n) ELSE IntStr(n)

C13_ErrorsCarryValueAndAlternatives ==
  /\ UnknownCategoryCall
       => /\ lastCall.status = "ValueError"
          /\ Contains(lastCall.message, lastCall.args.category)
          /\ Contains(lastCall.message, ListRepr(CategoryInstances))
  /\ InvalidCountCall
       => /\ lastCall.status = "ValueError"
          /\ Contains(lastCall.message, CountStr(lastCall.args.count))
          /\ Contains(lastCall.message, "between 1 and 5")
  /\ UnknownComponentCall
       => /\ lastCall.status = "ValueError"
          /\ Contains(lastCall.message, lastCall.args.component_name)
          /\ Contains(lastCall.message, ListRepr(clientSkeleton.sections.order))

\* ---------------------------------------------------------------------------
\* C14: build_prompt_skeleton, called for a known category with the output
\* of apply_transformations, returns a skeleton whose section keys are all
\* among subject, action, setting, objects, colors and mood, and the skeleton
\* a client holds keeps that property through every refine_component call.
ComponentSetNames ==
  {"subject", "action", "setting", "objects", "colors", "mood"}

C14_SectionKeysAreComponentNames ==
  /\ (LastTool("build_prompt_skeleton") /\ KnownCategory)
       => /\ lastCall.status = "ok"
          /\ Keys(lastCall.value.sections) \subseteq ComponentSetNames
  /\ HasSkeleton => Keys(clientSkeleton.sections) \subseteq ComponentSetNames

\* ---------------------------------------------------------------------------
\* C15: build_prompt_skeleton, called for a known category, returns a
\* skeleton whose emphasis keys are all keys of the semantic weights it was
\* given, and refine_component calls leave the emphasis keys as they are.
C15_EmphasisKeysAreWeightKeys ==
  /\ (LastTool("build_prompt_skeleton") /\ KnownCategory)
       => /\ lastCall.status = "ok"
          /\ DOMAIN lastCall.value.emphasis
               \subseteq DOMAIN lastCall.args.semantic_weights
  /\ HasSkeleton
       => DOMAIN clientSkeleton.emphasis \subseteq DOMAIN BoundaryWeights

\* ---------------------------------------------------------------------------
\* C16: after any sequence of tool calls the rule catalog, the lookup tables
\* and the templates are what they were right after loading; in particular a
\* refine_component call on the style_markers section, which started as the
\* category's mandatory-marker list, leaves that list in the catalog as it
\* was.
C16_CatalogAsLoaded ==
  /\ CATEGORIES = ModuleInit.CATEGORIES
  /\ TRANSFORMATION_MAPS = ModuleInit.TRANSFORMATION_MAPS
  /\ TEMPLATES = ModuleInit.TEMPLATES
  /\ \A c \in DOMAIN CATEGORIES :
       CATEGORIES[c].mandatory_markers = _extract_mandatory_markers(c)

\* After a parse and other calls the client has replaced the style_markers
\* section, and the catalog's list for the skeleton's category still has its
\* four markers.
C16_Witness ==
  /\ LastTool("refine_component")
  /\ lastCall.args.component_name = "style_markers"
  /\ lastCall.status = "ok"
  /\ HasComponents
  /\ clientSkeleton.metadata.category = "mascot_theater"
  /\ clientSkeleton.sections.value["style_markers"] = PyStr("a chef")
  /\ CATEGORIES["mascot_theater"].mandatory_markers
       = <<"cartoon character", "bold black outlines",
           "commercial illustration style", "bright primary colors">>

\* ---------------------------------------------------------------------------
\* C17: the catalog is loaded once: what a later call of get_categories,
\* get_transformation_maps or get_templates returns is the value that the
\* first call returned and that start-up stored in the module global.
C17_LaterCallsReturnStartupValue ==
  /\ LastTool("get_categories") => lastCall.value = CATEGORIES
  /\ LastTool("get_transformation_maps") => lastCall.value = TRANSFORMATION_MAPS
  /\ LastTool("get_templates") => lastCall.value = TEMPLATES

\* ---------------------------------------------------------------------------
\* C18: however the tool calls of two pipeline runs are interleaved, each
\* run gets from apply_transformations, build_prompt_skeleton and
\* refine_component what it gets when it runs alone against the catalog as
\* loaded.
SoloTransform(request) ==
  apply_transformations(request.components, request.category,
                        request.style_params, ModuleInit.CATEGORIES,
                        ModuleInit.TRANSFORMATION_MAPS)

SoloAssemble(request, transformed) ==
  build_prompt_skeleton(TransformedDict(transformed.value), request.category,
                        request.components.semantic_weights,
                        ModuleInit.TEMPLATES, ModuleInit.CATEGORIES)

\* The skeleton the run refines when it runs alone.
SoloSkeleton(request, assembled) ==
  IF assembled.status = "ok" THEN assembled.value ELSE request.skeleton

SoloRefine(request, assembled, args) ==
  refine_component(SoloSkeleton(request, assembled), args.component_name,
                   args.new_value)

RunAsAlone(run) ==
  /\ run.pc # "transform" => run.transformed = SoloTransform(run.request)
  /\ run.pc \in {"refine", "done"} /\ run.transformed.status = "ok"
       => run.assembled = SoloAssemble(run.request, SoloTransform(run.request))
  /\ run.refined.tool = "refine_component"
       => /\ run.skeleton
               = SoloRefine(run.request,
                            SoloAssemble(run.request, SoloTransform(run.request)),
                            run.refined.args).value
          /\ run.refined.status
               = SoloRefine(run.request,
                            SoloAssemble(run.request, SoloTransform(run.request)),
                            run.refined.args).status
          /\ run.refined.message
               = SoloRefine(run.request,
                            SoloAssemble(run.request, SoloTransform(run.request)),
                            run.refined.args).message

C18_RunsAsAlone == \A r \in DOMAIN runs : RunAsAlone(runs[r])

\* Run 1 has replaced the style_markers section of its mascot_theater
\* skeleton, and run 2, for another prompt and the same category, has got
\* its transformation and is not finished.
C18_Witness ==
  /\ DOMAIN runs = RunIds
  /\ runs[1].pc = "done"
  /\ runs[1].request.category = "mascot_theater"
  /\ runs[1].refined.args.component_name = "style_markers"
  /\ runs[1].refined.status = "ok"
  /\ runs[2].pc = "assemble"
  /\ runs[2].request.category = "mascot_theater"
  /\ runs[2].request.components # runs[1].request.components
  /\ runs[2].transformed.value.style_markers
       = <<"cartoon character", "bold black outlines",
           "commercial illustration style", "bright primary colors">>

\* ---------------------------------------------------------------------
\* C19: two runs of transform then assemble on the same components,
\* category, style parameters and weights end with the same transformation
\* result and the same assembly result (the same skeleton or the same
\* failure), whatever calls were made in between.
Finished(run) == run.pc \in {"refine", "done"}

C19_SameInputsSameOutcome ==
  \A r1 \in DOMAIN runs, r2 \in DOMAIN runs :
    /\ runs[r1].request = runs[r2].request
    /\ Finished(runs[r1])
    /\ Finished(runs[r2])
    => /\ runs[r1].transformed = runs[r2].transformed
       /\ runs[r1].assembled = runs[r2].assembled

\* Both runs were made for the chef prompt and mascot_theater; run 1 went
\* through transform, assemble and a replacement of its style_markers
\* section before run 2 was assembled.
C19_Witness ==
  /\ DOMAIN runs = RunIds
  /\ runs[1].request = runs[2].request
  /\ runs[1].request.category = "mascot_theater"
  /\ runs[1].request.components.subject.name = "chef"
  /\ runs[1].pc = "done"
  /\ runs[1].refined.args.component_name = "style_markers"
  /\ runs[2].pc = "refine"
  /\ runs[2].transformed.status = "ok"
  /\ runs[2].assembled.status = "KeyError"

\* ---------------------------------------------------------------------
\* C20: for the text "a happy chef cooking soup" parse_prompt gives a human
\* subject named chef, the verb cooking at medium energy and the mood happy
\* with positive valence; apply_transformations of that result for
\* mascot_theater without style parameters gives a subject fragment that
\* holds the treatment label, "chef" and the chef's profession props, and a
\* colors fragment made of the category's default palette.
ChefText == "a happy chef cooking soup"

ChefParsed(c) ==
  /\ c.subject.type = "human"
  /\ c.subject.name = "chef"
  /\ c.action.verb = "cooking"
  /\ c.action.energy_level = "medium"
  /\ c.mood.emotion = "happy"
  /\ c.mood.valence = "positive"

ChefTransformed(t) ==
  /\ Contains(t.subject, "cartoon mascot")
  /\ Contains(t.subject, "chef")
  /\ Contains(t.subject, "with oversized white chef hat and red neckerchief")
  /\ Contains(t.colors, "bright primary colors (red, blue, yellow)")

ChefTransformCall ==
  /\ lastCall.tool = "apply_transformations"
  /\ lastCall.args.category = "mascot_theater"
  /\ lastCall.args.style_params = EmptyDict
  /\ ChefParsed(clientComponents)
  /\ clientComponents.subject.profession = "chef"
  /\ clientComponents.colors = <<>>

C20_ChefScenario ==
  /\ lastCall.tool = "parse_prompt" /\ lastCall.args.user_prompt = ChefText
       => ChefParsed(clientComponents)
  /\ ChefTransformCall
       => lastCall.status = "ok" /\ ChefTransformed(lastCall.value)

\* The chef prompt was parsed and its components were transformed for
\* mascot_theater without style parameters.
C20_Witness ==
  /\ ChefTransformCall
  /\ clientComponents = parse_prompt(ChefText, TRANSFORMATION_MAPS)
  /\ lastCall.status = "ok"

\* ---------------------------------------------------------------------
\* C21: suggest_category returns as primary a category of maximal score,
\* the earliest of the catalog among those; the alternatives are the next
\* two categories of the same ranking (score descending, catalog order
\* among equals) and do not hold the primary; scores has one entry per
\* catalog category.
CatalogPos(c) ==
  CHOOSE i \in 1..Len(CategoryKeys(CATEGORIES)) : CategoryKeys(CATEGORIES)[i] = c

\* a stands before b in the ranking
RanksBefore(a, b, scores) ==
  \/ scores[a] > scores[b]
  \/ scores[a] = scores[b] /\ CatalogPos(a) < CatalogPos(b)

SuggestCall == lastCall.tool = "suggest_category" /\ lastCall.status = "ok"

C21_PrimaryIsFirstMaximum ==
  SuggestCall =>
    LET v == lastCall.value
        p == v.primary_suggestion
        alts == v.alternatives
        rest == DOMAIN CATEGORIES \ {p}
    IN /\ DOMAIN v.scores = DOMAIN CATEGORIES
       /\ p \in DOMAIN CATEGORIES
       /\ \A c \in rest : RanksBefore(p, c, v.scores)
       /\ Len(alts) = 2
       /\ alts[1] \in rest
       /\ \A c \in rest \ {alts[1]} : RanksBefore(alts[1], c, v.scores)
       /\ alts[2] \in rest \ {alts[1]}
       /\ \A c \in rest \ {alts[1], alts[2]} : RanksBefore(alts[2], c, v.scores)

\* A suggestion in which the primary shares the maximal score with another
\* category, and the two alternatives have different scores.
C21_Witness ==
  /\ SuggestCall
  /\ \E c \in DOMAIN CATEGORIES \ {lastCall.value.primary_suggestion} :
       lastCall.value.scores[c]
         = lastCall.value.scores[lastCall.value.primary_suggestion]
  /\ lastCall.value.scores[lastCall.value.alternatives[1]]
       > lastCall.value.scores[lastCall.value.alternatives[2]]

\* ---------------------------------------------------------------------
\* C22: apply_transformations of any parsed ComponentSet for any of the
\* seven categories returns transformed components whose subject and colors
\* are non-empty strings.
C22_SubjectAndColorsNonEmpty ==
  (LastTool("apply_transformations") /\ KnownCategory)
    => /\ lastCall.status = "ok"
       /\ lastCall.value.subject # ""
       /\ lastCall.value.colors # ""

\* ---------------------------------------------------------------------
\* C23: for an action with a verb the action fragment is built from the
\* category's action rule for the extracted energy tier (high_energy for a
\* high-energy verb, medium_energy for a medium-energy verb) whenever the
\* category's action table has that entry, and from the low_energy entry
\* only when it has not.
TierEntry(action_rules, energy_level) ==
  IF (energy_level \o "_energy") \in DOMAIN action_rules
  THEN action_rules[energy_level \o "_energy"]
  ELSE action_rules["low_energy"]

ActionHead(verb, action_rule) ==
  Join(", ", <<verb \o " with " \o Get(action_rule, "treatment", "")>>
             \o Get(action_rule, "features", <<>>))

C23_ActionUsesExtractedTier ==
  (/\ LastTool("apply_transformations")
   /\ KnownCategory
   /\ lastCall.status = "ok"
   /\ Truthy(clientComponents.action.verb))
    => LET head == ActionHead(clientComponents.action.verb,
                              TierEntry(CATEGORIES[lastCall.args.category].action_rules,
                                        clientComponents.action.energy_level))
       IN Prefix(lastCall.value.action, Len(head)) = head

\* ---------------------------------------------------------------------
\* C24: order_by_importance returns exactly the components with a truthy
\* value, each once and with its value: first those named in the emphasis
\* order, in emphasis order, then the others in the insertion order of the
\* components; a typography of None is left out.
PosIn(seq, k) == Min({i \in 1..Len(seq) : seq[i] = k})

InSeq(seq, k) == \E i \in 1..Len(seq) : seq[i] = k

OrderedAsClaimed(components, emphasis_order, ordered) ==
  /\ Keys(ordered)
       = {k \in Keys(components) : PyTruthy(components.value[k])}
  /\ Len(ordered.order) = Cardinality(Keys(ordered))
  /\ \A k \in Keys(ordered) : ordered.value[k] = components.value[k]
  /\ \A i \in 1..Len(ordered.order), j \in 1..Len(ordered.order) :
       i < j =>
         LET a == ordered.order[i]
             b == ordered.order[j]
         IN IF InSeq(emphasis_order, a)
            THEN InSeq(emphasis_order, b)
                   => PosIn(emphasis_order, a) < PosIn(emphasis_order, b)
            ELSE /\ ~InSeq(emphasis_order, b)
                 /\ PosIn(components.order, a) < PosIn(components.order, b)

C24_OrderedByEmphasisThenInsertion ==
  LastTool("order_by_importance")
    => OrderedAsClaimed(lastCall.args.components, lastCall.args.emphasis_order,
                        lastCall.value)

\* Components with a typography of None were ordered by the mascot_theater
\* template: effects stands before setting, against the insertion order,
\* and typography is left out.
C24_Witness ==
  /\ LastTool("order_by_importance")
  /\ lastCall.args.emphasis_order = template_map.mascot_theater.emphasis_order
  /\ lastCall.args.components.value.typography = PyNone
  /\ lastCall.value.order
       = <<"subject", "action", "effects", "setting", "colors", "style_markers">>

\* ---------------------------------------------------------------------
\* C25: for every component of the weights passed to build_prompt_skeleton
\* the emphasis multiplier of the returned skeleton is 1.3 for a weight
\* above 60, else 1.15 above 40, else 1.0 above 20, else 0.85 (multipliers
\* in hundredths).
ClaimedMultiplier(w) ==
  CASE w > 60 -> 130
    [] w <= 60 /\ w > 40 -> 115
    [] w <= 40 /\ w > 20 -> 100
    [] w <= 20 -> 85

C25_MultiplierByStrictThresholds ==
  (LastTool("build_prompt_skeleton") /\ KnownCategory)
    => /\ lastCall.status = "ok"
       /\ \A c \in DOMAIN lastCall.args.semantic_weights :
            lastCall.value.emphasis[c]
              = ClaimedMultiplier(lastCall.args.semantic_weights[c])

\* ---------------------------------------------------------------------
\* C26: when colors were extracted, the colors fragment opens with at most
\* three palette entries, each the category's mapping of an extracted color
\* or the color itself, and carries the complementary-accent note whenever
\* the category's color rule asks for it, for one, two, three or more
\* extracted colors.
PaletteEntry(color_rules, color) ==
  IF color \in DOMAIN Get(color_rules, "mappings", EmptyDict)
  THEN color_rules.mappings[color] ELSE color

PaletteHead(color_rules, colorList) ==
  "color palette of "
    \o Join(", ", [i \in 1..(IF Len(colorList) < 3 THEN Len(colorList) ELSE 3) |->
                     PaletteEntry(color_rules, colorList[i])])

AccentRequested(color_rules) ==
  Get(color_rules, "always_add", None) = "complementary accent color"

C26_PaletteOfThreeWithAccent ==
  (/\ LastTool("apply_transformations")
   /\ KnownCategory
   /\ lastCall.status = "ok"
   /\ clientComponents.colors # <<>>)
    => LET color_rules == CATEGORIES[lastCall.args.category].color_rules
           head == PaletteHead(color_rules, clientComponents.colors)
       IN /\ Prefix(lastCall.value.colors, Len(head)) = head
          /\ AccentRequested(color_rules)
               => Contains(lastCall.value.colors, "with complementary accent")

\* ---------------------------------------------------------------------
\* C27: extract_action returns the first verb, in list order, of the first
\* tier in the order high, medium, low that has a verb occurring anywhere
\* in the lower-cased text: a high-energy verb wins over all others
\* wherever they stand, a medium-energy verb is returned only without a
\* high-energy one, a low-energy verb only without both.
TierHits(lt, tier) ==
  {j \in 1..Len(actions[tier]) : Contains(lt, actions[tier][j])}

ClaimedVerb(lt) ==
  IF TierHits(lt, "high_energy") # {}
  THEN <<actions.high_energy[Min(TierHits(lt, "high_energy"))], "high">>
  ELSE IF TierHits(lt, "medium_energy") # {}
  THEN <<actions.medium_energy[Min(TierHits(lt, "medium_energy"))], "medium">>
  ELSE IF TierHits(lt, "low_energy") # {}
  THEN <<actions.low_energy[Min(TierHits(lt, "low_energy"))], "low">>
  ELSE <<None, "low">>

C27_HighestTierFirstListedVerb ==
  LastTool("parse_prompt")
    => <<clientComponents.action.verb, clientComponents.action.energy_level>>
         = ClaimedVerb(Lower(lastCall.args.user_prompt))

\* A prompt with a low, a medium and a high-energy verb in this order was
\* parsed, and the high-energy verb was returned.
C27_Witness ==
  /\ LastTool("parse_prompt")
  /\ lastCall.args.user_prompt = "sitting then walking then running"
  /\ clientComponents.action.verb = "running"
  /\ clientComponents.action.energy_level = "high"

\* ---------------------------------------------------------------------
\* C28: a successful refine_component leaves the section keys and their
\* order, the values of all other sections, the emphasis mapping, the
\* template, the negative prompt and the metadata's category as they were;
\* apart from the named section only the token estimate and the history
\* may change.
RefineFrame(before, after, component_name) ==
  /\ DOMAIN after = DOMAIN before
  /\ after.sections.order = before.sections.order
  /\ \A k \in Keys(before.sections) \ {component_name} :
       after.sections.value[k] = before.sections.value[k]
  /\ after.emphasis = before.emphasis
  /\ after.template = before.template
  /\ after.negative_prompt = before.negative_prompt
  /\ after.metadata.category = before.metadata.category
  /\ \A k \in DOMAIN before.metadata \ {"estimated_tokens", "user_modifications"} :
       k \in DOMAIN after.metadata /\ after.metadata[k] = before.metadata[k]

C28_RefineChangesNamedSectionOnly ==
  [][(RefineStep(TRUE) /\ lastCall'.status = "ok")
       => RefineFrame(clientSkeleton, clientSkeleton',
                      lastCall'.args.component_name)]_vars

\* The first of three sections was replaced: it is still the first.
C28_Witness ==
  /\ LastTool("refine_component")
  /\ lastCall.status = "ok"
  /\ lastCall.args.component_name = "colors"
  /\ clientSkeleton.sections.order = <<"colors", "subject", "style_markers">>
  /\ clientSkeleton.sections.value["colors"] = PyStr(lastCall.args.new_value)
  /\ HistoryOf(clientSkeleton) = <<"colors">>

\* ---------------------------------------------------------------------
\* C29: a generate_variants call for a known category and a count from 2
\* to 5 returns variants whose skeletons are independent: a
\* refine_component call on the skeleton of one variant leaves the
\* sections and the metadata (token estimate, history) of every other
\* variant of the call as they were.
VariantsAfterRefine(variants, i, component_name, new_value) ==
  [variants EXCEPT ![i].skeleton =
     refine_component(variants[i].skeleton, component_name, new_value).value]

C29_VariantSkeletonsIndependent ==
  (/\ LastTool("generate_variants")
   /\ KnownCategory
   /\ lastCall.args.count \in 2..5)
    => /\ lastCall.status = "ok"
       /\ \A i \in 1..Len(lastCall.value), j \in 1..Len(lastCall.value) :
            \A component_name \in ComponentNameInputs, new_value \in NewValues :
              i # j =>
                LET after == VariantsAfterRefine(lastCall.value, i,
                                                 component_name, new_value)
                IN /\ after[j].skeleton.sections
                        = lastCall.value[j].skeleton.sections
                   /\ after[j].skeleton.metadata
                        = lastCall.value[j].skeleton.metadata

\* ---------------------------------------------------------------------
\* C30: when the parsed subject has no name the subject fragment uses the
\* word character, and when the parsed setting has no location the setting
\* fragment uses the word background, and neither fragment holds the text
\* None.
C30_FallbackWordsForAbsentValues ==
  (/\ LastTool("apply_transformations")
   /\ KnownCategory
   /\ lastCall.status = "ok")
    => /\ clientComponents.subject.name = None
            => /\ Contains(lastCall.value.subject, "character")
               /\ ~Contains(lastCall.value.subject, "None")
       /\ clientComponents.setting.location = None
            => /\ Contains(lastCall.value.setting, "background")
               /\ ~Contains(lastCall.value.setting, "None")

====
